---- MODULE Spec2Model ----
(***************************************************************************)
(* Transaction processing core of hm9-banking (Fjord Bank): transfer       *)
(* intake (handler.TransferHandler.CreateTransfer), the claim-and-execute  *)
(* engine (processor.TransferProcessor.Process) and the Redis dispatch     *)
(* (queue.Publisher / queue.Worker), over a PostgreSQL store.              *)
(*                                                                         *)
(* Storage model.  pgxpool.Begin opens a transaction at PostgreSQL's       *)
(* default isolation level (READ COMMITTED; nothing in the code raises     *)
(* it): every statement reads the rows committed when it starts plus the   *)
(* writes of its own transaction, an UPDATE of a row that an open          *)
(* transaction has updated waits for that transaction to end and then      *)
(* re-evaluates its WHERE clause, and a transaction's writes become        *)
(* visible to the others at Commit, all at once, or never (Rollback).      *)
(*   txs, parties, ledger  the committed tables                            *)
(*   unit[e]               the uncommitted writes of executor e's dbTx     *)
(*                                                                         *)
(* Amounts.  A DECIMAL(19,4) value is an integer number of 0.0001 units.   *)
(* A request amount is a string; ParseFloat gives its value in 0.00001     *)
(* units, one digit finer than the column keeps.                           *)
(*                                                                         *)
(* Timestamps of the transaction rows are kept as set / not set (TRUE /    *)
(* FALSE); created_at of a ledger entry and locked_until of a customer     *)
(* are minutes on the clock.                                               *)
(***************************************************************************)
EXTENDS Integers, Sequences, FiniteSets, TLC

\* ---------------------------------------------------------------- bounds
\* largest opening balance of account "A", in 0.0001 units
MaxOpening == 2
\* number of pending transfers the engine-only specifications start with
MaxPending == 2
\* number of Process invocations the replay callers may make
MaxCalls == 2
\* number of Login invocations
MaxLogins == 7
\* number of steps of the clock, and the minutes in one step
MaxTicks == 3
TickMinutes == 5
\* number of point-in-time balance queries
MaxQueries == 2

\* ------------------------------------------------------------ executors
\* concurrent HTTP requests (each runs CreateTransfer once)
Requests == {"r1", "r2"}
\* queue workers (cmd/worker)
Workers == {"w1", "w2"}
\* direct callers of TransferProcessor.Process (redelivery, operator replay)
Callers == {"c1", "c2"}
Executors == Requests \cup Workers \cup Callers

\* ------------------------------------------------------------- accounts
\* model.AccountType / model.AccountStatus / currency / owner (customer_id,
\* "nil" for a system account) of the accounts table.
\* The table is fixed: no code path of the core changes an account.
AccountTable ==
  [ EQ |-> [account_type |-> "equity",   currency |-> "NOK", status |-> "active",
            customer_id |-> "nil"],
    A  |-> [account_type |-> "checking", currency |-> "NOK", status |-> "active",
            customer_id |-> "cust1"],
    B  |-> [account_type |-> "checking", currency |-> "NOK", status |-> "active",
            customer_id |-> "cust2"],
    F  |-> [account_type |-> "checking", currency |-> "NOK", status |-> "frozen",
            customer_id |-> "cust1"],
    U  |-> [account_type |-> "checking", currency |-> "USD", status |-> "active",
            customer_id |-> "cust2"] ]
AccountIds == DOMAIN AccountTable
\* uuid.Nil
NilAccount == "nil"
\* a well-formed uuid that no account row has
GhostAccount == "ghost"

\* middleware.GetCustomerID(r.Context()): the customer RequireAuth put in the
\* context of request r (request r1 carries cust1's access token, r2 cust2's)
GetCustomerID(r) == IF r = "r1" THEN "cust1" ELSE "cust2"

\* account.CustomerID != nil && *account.CustomerID == customerID
OwnedBy(a, customerID) == a \in AccountIds /\ AccountTable[a].customer_id = customerID

\* Account.IsSystemAccount
IsSystemAccount(a) == AccountTable[a].account_type = "equity"

\* --------------------------------------------------------------- amounts
\* the amount column is NULL (rows older than migration 000002): tx.Amount = ""
NullAmount == -1

\* request amount strings the model draws from
AmountStrings == {"", "abc", "-0.0001", "0", "0.00004", "0.0001", "0.0002"}

\* further amount strings the functions are applied to: whitespace only, a
\* number between spaces, a number followed by letters, not-a-number
AmountInputs == AmountStrings \cup {"   ", " 0.0001 ", "0.0001abc", "NaN"}

\* strings.TrimSpace
TrimSpace(s) ==
  CASE s = "   "      -> ""
    [] s = " 0.0001 " -> "0.0001"
    [] OTHER          -> s

\* strconv.ParseFloat succeeds (err == nil)
WellFormed(s) == s \notin {"", "abc", "   ", " 0.0001 ", "0.0001abc"}

\* strconv.ParseFloat returns NaN
IsNaN(s) == s = "NaN"

\* strconv.ParseFloat: the value, in 0.00001 units
ParseFloat(s) ==
  CASE s = "-0.0001" -> -10
    [] s = "0"       -> 0
    [] s = "0.0000"  -> 0
    [] s = "0.00004" -> 4
    [] s = "0.0001"  -> 10
    [] s = "0.0002"  -> 20
    [] s = "0.0003"  -> 30
    [] OTHER         -> 0

\* val <= 0 on float64: false for NaN
NotPositive(s) == ~IsNaN(s) /\ ParseFloat(s) <= 0

\* variant with a fault: validateAmount without the val <= 0 test
validateAmountAnySign(s) ==
  /\ TrimSpace(s) # ""
  /\ WellFormed(TrimSpace(s))

\* validateAmount: nil (TRUE) or ErrInvalidAmount (FALSE)
validateAmount(s) ==
  LET amount == TrimSpace(s)
  IN /\ amount # ""
     /\ WellFormed(amount)
     /\ ~NotPositive(amount)

\* fmt.Sscanf(s, "%f", &amount) returns no error: leading spaces are skipped,
\* the longest prefix that reads as a float is taken, what follows is left
SscanfOk(s) == s \notin {"", "abc", "   "}

\* fmt.Sscanf(s, "%f", &amount): the value scanned, in 0.00001 units
SscanfValue(s) ==
  CASE s = " 0.0001 "  -> 10
    [] s = "0.0001abc" -> 10
    [] OTHER           -> ParseFloat(s)

\* tx.Amount as claimTransaction scans it: the text of the DECIMAL(19,4)
\* column, "" when the column is NULL
ColumnText(n) ==
  CASE n = -1 -> ""
    [] n = 0  -> "0.0000"
    [] n = 1  -> "0.0001"
    [] n = 2  -> "0.0002"
    [] n = 3  -> "0.0003"

\* the value PostgreSQL stores in a DECIMAL(19,4) column for a numeric text:
\* rounded half away from zero to 4 fractional digits (0.0001 units)
ToDecimal4(s) ==
  LET v == ParseFloat(s)
  IN IF v >= 0 THEN (v + 5) \div 10 ELSE -((-v + 5) \div 10)

\* ------------------------------------------------------------- requests
Keys == {"k1", "k2"}
Currencies == {"NOK", "USD"}

\* len(s) of the currency strings the model draws from, in bytes;
\* "N<U+00F8>" stands for the two letters N and o-with-stroke, which UTF-8
\* encodes in three bytes
StrLen(s) ==
  CASE s \in {"NOK", "USD"} -> 3
    [] s = "NO"             -> 2
    [] s = "NOKK"           -> 4
    [] s = "N<U+00F8>"      -> 3
    [] OTHER                -> 0

\* model.CreateTransferRequest values the model draws from: every transfer
\* between the active NOK accounts, and one request per validation rule
BaseBody == [from_account_id |-> "A", to_account_id |-> "B",
             amount |-> "0.0001", currency |-> "NOK"]
RequestBodies ==
     [ from_account_id : {"A", "B", "EQ"},
       to_account_id   : {"A", "B"},
       amount          : {"0.00004", "0.0001", "0.0002"},
       currency        : {"NOK"} ]
  \cup {[BaseBody EXCEPT !.from_account_id = x] : x \in {"F", NilAccount, GhostAccount}}
  \cup {[BaseBody EXCEPT !.to_account_id = x] : x \in {"F", "U", NilAccount, GhostAccount}}
  \cup {[BaseBody EXCEPT !.amount = x] : x \in AmountStrings}
  \cup {[BaseBody EXCEPT !.currency = x] : x \in {"USD", "NO"}}

\* CreateTransferRequest.Validate: "" (nil) or the error
Validate(r) ==
  IF r.from_account_id = NilAccount THEN "ErrInvalidFromAccount"
  ELSE IF r.to_account_id = NilAccount THEN "ErrInvalidToAccount"
  ELSE IF r.from_account_id = r.to_account_id THEN "ErrSameAccount"
  ELSE IF r.amount = "" THEN "ErrInvalidAmount"
  ELSE IF StrLen(r.currency) # 3 THEN "ErrInvalidCurrency"
  ELSE ""

\* CreateTransfer, the checks between the idempotency lookup and the insert:
\* "" when the request passes, else the error message of the 400 answer
ValidateTransfer(r) ==
  IF Validate(r) # "" THEN Validate(r)
  ELSE IF ~validateAmount(r.amount) THEN "ErrInvalidAmount"
  ELSE IF r.from_account_id \notin AccountIds THEN "Source account not found"
  ELSE IF AccountTable[r.from_account_id].status # "active"
       THEN "Source account is not active"
  ELSE IF r.to_account_id \notin AccountIds THEN "Destination account not found"
  ELSE IF AccountTable[r.to_account_id].status # "active"
       THEN "Destination account is not active"
  ELSE IF AccountTable[r.from_account_id].currency
            # AccountTable[r.to_account_id].currency
       THEN "Currency mismatch between accounts"
  ELSE IF r.currency # AccountTable[r.from_account_id].currency
       THEN "Request currency does not match account currency"
  ELSE ""

\* ---------------------------------------------------------------- state
VARIABLES
  asyncMode,  \* Config.AsyncMode: h.publisher # nil
  txs,        \* transactions table: id -> row
  parties,    \* transaction_parties table: set of rows
  ledger,     \* ledger_entries table: set of rows
  unit,       \* executor -> uncommitted writes of its open dbTx
  proc,       \* executor -> its Process invocation (position, locals, result)
  req,        \* request -> its CreateTransfer invocation (position, response)
  queue,      \* the Redis list "transactions:pending"
  wk,         \* worker -> position in Worker.Start
  sig,        \* worker -> its shutdown signals (stopCh closed, ctx cancelled)
  customers,  \* customers table: id -> row (the login columns)
  clock,      \* time.Now(), in minutes
  login,      \* login session -> its Service.Login invocation
  call,       \* a call of one function by itself: name, arguments, result
  hist        \* history: what the invocations did (read by the properties only)

vars == <<asyncMode, txs, parties, ledger, unit, proc, req, queue, wk, sig,
          customers, clock, login, call, hist>>

\* the state of the authentication service / of the transaction core
authVars == <<customers, clock, login>>
coreVars == <<asyncMode, txs, parties, ledger, unit, proc, req, queue, wk, sig>>

\* ------------------------------------------------------- table helpers
RECURSIVE SumAmounts(_)
\* SUM(amount) over a set of ledger rows; COALESCE(..., 0) for the empty set
SumAmounts(S) ==
  IF S = {} THEN 0
  ELSE LET x == CHOOSE y \in S : TRUE IN x.amount + SumAmounts(S \ {x})

\* ledger rows of one transaction / one account
EntriesOf(L, id) == {x \in L : x.transaction_id = id}
EntriesOn(L, a) == {x \in L : x.account_id = a}

\* LedgerRepository balance: SUM(amount) WHERE account_id = a
Balance(L, a) == SumAmounts(EntriesOn(L, a))

\* uuid.New() for a transaction: an id no row has
NewTxId == CHOOSE n \in 1..(Cardinality(DOMAIN txs) + 1) : n \notin DOMAIN txs

\* uuid.New() for the k-th ledger row built for transaction id: an id no
\* row of the ledger L has
NewEntryId(L, id, k) == [tx |-> id, n |-> Cardinality(EntriesOf(L, id)) + k]

\* TransactionRepository.GetByIdempotencyKey: the ids of the rows with that key
GetByIdempotencyKey(key) == {id \in DOMAIN txs : txs[id].idempotency_key = key}

\* the row CreateTransfer builds (status pending, amount from the request)
NewTransaction(key, body) ==
  [ idempotency_key |-> key,
    status          |-> "pending",
    amount          |-> ToDecimal4(body.amount),
    processed_at    |-> FALSE,
    completed_at    |-> FALSE,
    error_message   |-> "" ]

\* the two party rows CreateTransfer builds
NewParties(id, body) ==
  { [transaction_id |-> id, account_id |-> body.from_account_id, role |-> "source"],
    [transaction_id |-> id, account_id |-> body.to_account_id, role |-> "destination"] }

\* variant with a fault: no UNIQUE constraint on idempotency_key: the insert always succeeds
UniqueViolationNever(key) == FALSE

\* the idempotency_key UNIQUE constraint rejects the insert
UniqueViolation(key) == GetByIdempotencyKey(key) # {}

\* ----------------------------------------------------- executor records
NoUnit == [txs |-> {}, ledger |-> {}]
NoResult == [Success |-> FALSE, ErrorMessage |-> "", err |-> FALSE]
IdleProc == [pc |-> "idle", id |-> 0, balance |-> 0, at |-> 0, result |-> NoResult]
NoBody == [from_account_id |-> NilAccount, to_account_id |-> NilAccount,
           amount |-> "", currency |-> ""]
NoResponse == [code |-> 0, transaction_id |-> 0, status |-> "", via |-> ""]
IdleReq == [pc |-> "start", key |-> "", body |-> NoBody, id |-> 0, resp |-> NoResponse]

\* ProcessResult values Process returns
AlreadyHandled ==
  [Success |-> TRUE, ErrorMessage |-> "transaction already processed or not found",
   err |-> FALSE]
Completed == [Success |-> TRUE, ErrorMessage |-> "", err |-> FALSE]
BusinessFailure(msg) == [Success |-> FALSE, ErrorMessage |-> msg, err |-> FALSE]
SystemError == [Success |-> FALSE, ErrorMessage |-> "", err |-> TRUE]


\* ------------------------------------------ the open database transaction
\* the row of transaction id that a statement of the unit U sees: U's own
\* write of it, else the committed row
Visible(U, id) ==
  IF \E u \in U.txs : u.id = id
  THEN (CHOOSE u \in U.txs : u.id = id).row
  ELSE txs[id]

\* the unit U after an UPDATE of row id
WriteRow(U, id, row) ==
  [U EXCEPT !.txs = {u \in @ : u.id # id} \cup {[id |-> id, row |-> row]}]

\* variant with a fault: an UPDATE that never waits for another transaction's row lock
LockedByOtherNever(e, id) == FALSE

\* another open transaction has updated row id and not ended: an UPDATE of
\* the row waits
LockedByOther(e, id) ==
  \E o \in Executors \ {e} : \E u \in unit[o].txs : u.id = id

\* variant with a fault: the INSERT is an upsert per account, a new row takes
\* the place of the account's earlier rows
CommitLedgerUpsert(U) ==
  {x \in ledger : \A y \in U.ledger : y.account_id # x.account_id} \cup U.ledger

\* dbTx.Commit: the tables after the unit U's writes become visible
CommitTxs(U) ==
  [id \in DOMAIN txs |-> IF \E u \in U.txs : u.id = id THEN Visible(U, id) ELSE txs[id]]
CommitLedger(U) == ledger \cup U.ledger

\* ------------------------------------------------ TransferProcessor parts
\* variant with a fault: claimTransaction without the status condition
ClaimMatchesAnyStatus(row) == TRUE

\* claimTransaction, its WHERE clause: id = $3 AND status = 'pending'
ClaimMatches(row) == row.status = "pending"

\* variant with a fault: the claim's SET clause without processed_at
ClaimRowNoTimestamp(row) == [row EXCEPT !.status = "processing"]

\* variant with a fault: the claim's SET clause also clears the amount
ClaimRowClearsAmount(row) ==
  [row EXCEPT !.status = "processing", !.processed_at = TRUE, !.amount = NullAmount]

\* claimTransaction, its SET clause: status = 'processing', processed_at = now
ClaimRow(row) == [row EXCEPT !.status = "processing", !.processed_at = TRUE]

\* claimTransaction: TRUE when the UPDATE returns a row (tx # nil)
claimTransaction(U, id) ==
  /\ id \in DOMAIN txs
  /\ ClaimMatches(Visible(U, id))

\* getParties + the loop of Process over them: the account with that role,
\* uuid.Nil when no party row has it
PartyAccount(id, role) ==
  LET ps == {p \in parties : p.transaction_id = id /\ p.role = role}
  IN IF ps = {} THEN NilAccount ELSE (CHOOSE p \in ps : TRUE).account_id

\* getBalanceForUpdate: COALESCE(SUM(amount), 0) over the ledger rows of the
\* account that the unit sees; the query takes no lock
getBalanceForUpdate(U, a) == Balance(ledger \cup U.ledger, a)

\* variant with a fault: hasSufficientFunds that only asks for a non-negative balance
hasSufficientFundsNonNegative(balance, amountStr) ==
  /\ SscanfOk(amountStr)
  /\ balance >= 0

\* hasSufficientFunds(balance, amountStr): balance in 0.0001 units
hasSufficientFunds(balance, amountStr) ==
  /\ SscanfOk(amountStr)
  /\ ~IsNaN(amountStr)
  /\ balance * 10 >= SscanfValue(amountStr)

\* variant with a fault: buildTransferEntries with the credit row negated as well
buildTransferEntriesBothNegative(L, id, from, to, amount, now) ==
  << [ id |-> NewEntryId(L, id, 1), transaction_id |-> id, account_id |-> from,
       amount |-> -amount, entry_type |-> "debit", created_at |-> now ],
     [ id |-> NewEntryId(L, id, 2), transaction_id |-> id, account_id |-> to,
       amount |-> -amount, entry_type |-> "credit", created_at |-> now ] >>

\* variant with a fault: buildTransferEntries with the two accounts exchanged
buildTransferEntriesSwapped(L, id, from, to, amount, now) ==
  << [ id |-> NewEntryId(L, id, 1), transaction_id |-> id, account_id |-> to,
       amount |-> -amount, entry_type |-> "debit", created_at |-> now ],
     [ id |-> NewEntryId(L, id, 2), transaction_id |-> id, account_id |-> from,
       amount |-> amount, entry_type |-> "credit", created_at |-> now ] >>

\* variant with a fault: buildTransferEntries whose debit row lacks the "-" prefix
buildTransferEntriesUnsignedDebit(L, id, from, to, amount, now) ==
  << [ id |-> NewEntryId(L, id, 1), transaction_id |-> id, account_id |-> from,
       amount |-> amount, entry_type |-> "debit", created_at |-> now ],
     [ id |-> NewEntryId(L, id, 2), transaction_id |-> id, account_id |-> to,
       amount |-> amount, entry_type |-> "credit", created_at |-> now ] >>

\* variant with a fault: buildTransferEntries with one uuid for both rows
buildTransferEntriesOneId(L, id, from, to, amount, now) ==
  << [ id |-> NewEntryId(L, id, 1), transaction_id |-> id, account_id |-> from,
       amount |-> -amount, entry_type |-> "debit", created_at |-> now ],
     [ id |-> NewEntryId(L, id, 1), transaction_id |-> id, account_id |-> to,
       amount |-> amount, entry_type |-> "credit", created_at |-> now ] >>

\* buildTransferEntries at time now, for an amount column value (an unsigned
\* decimal): the debit row ("-" + amount) on the source, then the credit row
\* on the destination, each with a new uuid, both with the one time.Now()
buildTransferEntries(L, id, from, to, amount, now) ==
  << [ id |-> NewEntryId(L, id, 1), transaction_id |-> id, account_id |-> from,
       amount |-> -amount, entry_type |-> "debit", created_at |-> now ],
     [ id |-> NewEntryId(L, id, 2), transaction_id |-> id, account_id |-> to,
       amount |-> amount, entry_type |-> "credit", created_at |-> now ] >>

\* the rows of a list of entries
Rows(entries) == {entries[i] : i \in DOMAIN entries}

\* ledger_entries constraints: CHECK (amount <> 0), account_id REFERENCES accounts
EntryAccepted(x) == x.amount # 0 /\ x.account_id \in AccountIds

\* variant with a fault: createLedgerEntries that stops after the first row (the debit)
createLedgerEntriesFirstOnly(U, entries) ==
  [U EXCEPT !.ledger = @ \cup {entries[1]}]

\* createLedgerEntries: the unit after the INSERTs
createLedgerEntries(U, entries) == [U EXCEPT !.ledger = @ \cup Rows(entries)]

\* completeTransaction, RowsAffected() > 0: WHERE id = $3 AND status = 'processing'
CompleteMatches(U, id) == id \in DOMAIN txs /\ Visible(U, id).status = "processing"

\* completeTransaction: the unit after the UPDATE
completeTransaction(U, id) ==
  IF CompleteMatches(U, id)
  THEN WriteRow(U, id, [Visible(U, id) EXCEPT !.status = "completed",
                                               !.completed_at = TRUE])
  ELSE U

\* variant with a fault: failTransaction that records the message and leaves the status
failTransactionKeepsStatus(U, id, errorMsg) ==
  IF id \in DOMAIN txs /\ Visible(U, id).status = "processing"
  THEN WriteRow(U, id, [Visible(U, id) EXCEPT !.error_message = errorMsg])
  ELSE U

\* failTransaction: the unit after the UPDATE (zero rows affected is no error)
failTransaction(U, id, errorMsg) ==
  IF id \in DOMAIN txs /\ Visible(U, id).status = "processing"
  THEN WriteRow(U, id, [Visible(U, id) EXCEPT !.status = "failed",
                                               !.completed_at = TRUE,
                                               !.error_message = errorMsg])
  ELSE U

\* ------------------------------------------------------------- history
\* ids the properties speak about: the seed transfer, the transfers intake
\* or the initial state creates, and one id no row has
IdSpace == 1..(MaxPending + 2)
NoHist ==
  [ calls      |-> 0,                       \* Process invocations by callers
    settled    |-> [id \in IdSpace |-> 0],  \* commits of a final status, per id
    rolledBack |-> {},                      \* ids whose claim was rolled back
    published  |-> {},                      \* ids RPUSHed to the queue
    delivered  |-> {},                      \* ids a worker popped
    taken      |-> {},                      \* messages a worker popped
    logins     |-> 0,                       \* Login invocations
    update     |-> [id |-> 0, status |-> "", err |-> ""],  \* the last UpdateStatus call
    seen       |-> {} ]                     \* answers of the balance queries as of a past time

Settle(h, id) == [h EXCEPT !.settled[id] = @ + 1]

\* ------------------------------------------------------- shutdown signals
\* stop: w.stopCh is closed; cancelled: the ctx given to Start is cancelled;
\* late: messages the worker took after Stop was called (history)
NoSignal == [stop |-> FALSE, cancelled |-> FALSE, late |-> 0]

\* the ctx of executor e's Process call is cancelled: every statement on it
\* returns the context's error
Cancelled(e) == e \in Workers /\ sig[e].cancelled

\* --------------------------------------------------------- authentication
\* auth.DefaultConfig
MaxFailedAttempts == 5
\* auth.DefaultConfig: 15 * time.Minute, in minutes
LockDuration == 15

\* locked_until IS NULL (Customer.LockedUntil == nil)
NullTime == -1

\* concurrent calls of Service.Login (POST /auth/login)
Logins == {"l1", "l2"}
CustomerIds == {"cust1"}

\* the row Register creates (model.Customer, the columns Login reads);
\* password stands for the bcrypt hash of that password
NewCustomer(status) ==
  [ email |-> "a@fjord.no", password |-> "right", status |-> status,
    failed_login_attempts |-> 0, locked_until |-> NullTime, last_login_at |-> FALSE ]

\* model.LoginRequest values the model draws from
LoginRequests ==
  { [email |-> "",           password |-> "right"],
    [email |-> "a@fjord.no", password |-> ""],
    [email |-> "x@fjord.no", password |-> "right"],
    [email |-> "a@fjord.no", password |-> "wrong"],
    [email |-> "a@fjord.no", password |-> "right"] }

\* LoginRequest.Validate: "" (nil) or the error
LoginValidate(r) ==
  IF r.email = "" THEN "ErrInvalidEmail"
  ELSE IF r.password = "" THEN "ErrPasswordRequired"
  ELSE ""

\* CustomerRepository.GetByEmail: the ids of the rows with that email
GetByEmail(email) == {id \in CustomerIds : customers[id].email = email}

\* variant with a fault: a lock that is never looked at
IsLockedNever(c, now) == FALSE

\* Customer.IsLocked at time now
IsLocked(c, now) == c.locked_until # NullTime /\ now < c.locked_until

\* Customer.CanLogin at time now
CanLogin(c, now) == c.status = "active" /\ ~IsLocked(c, now)

\* bcrypt.CompareHashAndPassword returns nil
PasswordMatches(c, password) == c.password = password

IdleLogin == [pc |-> "idle", req |-> [email |-> "", password |-> ""],
              id |-> "nil", attempts |-> 0, err |-> "", tokens |-> FALSE]

\* Login returns an error and no tokens
LoginError(l, r, err) == [IdleLogin EXCEPT !.pc = "returned", !.req = r, !.err = err]

\* Service.Login up to the password check: Validate, GetByEmail, CanLogin,
\* CompareHashAndPassword
LoginStart(l) ==
  /\ login[l].pc \in {"idle", "returned"}
  /\ hist.logins < MaxLogins
  /\ hist' = [hist EXCEPT !.logins = @ + 1]
  /\ \E r \in LoginRequests :
       login' = [login EXCEPT ![l] =
         IF LoginValidate(r) # "" THEN LoginError(l, r, LoginValidate(r))
         ELSE IF GetByEmail(r.email) = {} THEN LoginError(l, r, "ErrInvalidCredentials")
         ELSE LET id == CHOOSE x \in GetByEmail(r.email) : TRUE
                  customer == customers[id]
              IN IF ~CanLogin(customer, clock)
                 THEN IF IsLocked(customer, clock)
                      THEN LoginError(l, r, "ErrAccountLocked")
                      ELSE LoginError(l, r, "ErrAccountSuspended")
                 ELSE IF ~PasswordMatches(customer, r.password)
                 THEN [IdleLogin EXCEPT !.pc = "increment", !.req = r, !.id = id]
                 ELSE [IdleLogin EXCEPT !.pc = "reset", !.req = r, !.id = id]]
  /\ UNCHANGED <<call, coreVars, customers, clock>>

\* handleFailedLogin, IncrementFailedAttempts: SELECT ... FOR UPDATE, UPDATE
\* and Commit, one database transaction; Login returns ErrInvalidCredentials
\* unless the account is to be locked first
LoginIncrement(l) ==
  /\ login[l].pc = "increment"
  /\ LET newAttempts == customers[login[l].id].failed_login_attempts + 1
     IN /\ customers' = [customers EXCEPT ![login[l].id].failed_login_attempts = newAttempts]
        /\ login' = [login EXCEPT ![l] =
              IF newAttempts >= MaxFailedAttempts
              THEN [@ EXCEPT !.pc = "lock", !.attempts = newAttempts]
              ELSE [@ EXCEPT !.pc = "returned", !.attempts = newAttempts,
                             !.err = "ErrInvalidCredentials"]]
  /\ UNCHANGED <<call, coreVars, clock, hist>>

\* handleFailedLogin, LockAccount(now + LockDuration); Login returns
\* ErrInvalidCredentials
LoginLock(l) ==
  /\ login[l].pc = "lock"
  /\ customers' = [customers EXCEPT ![login[l].id].locked_until = clock + LockDuration]
  /\ login' = [login EXCEPT ![l] = [@ EXCEPT !.pc = "returned",
                                              !.err = "ErrInvalidCredentials"]]
  /\ UNCHANGED <<call, coreVars, clock, hist>>

\* Login after the password matched: ResetFailedAttempts
LoginReset(l) ==
  /\ login[l].pc = "reset"
  /\ customers' = [customers EXCEPT ![login[l].id].failed_login_attempts = 0]
  /\ login' = [login EXCEPT ![l].pc = "tokens"]
  /\ UNCHANGED <<call, coreVars, clock, hist>>

\* Login after the password matched: UpdateLastLogin and generateTokenPair
LoginTokens(l) ==
  /\ login[l].pc = "tokens"
  /\ customers' = [customers EXCEPT ![login[l].id].last_login_at = TRUE]
  /\ login' = [login EXCEPT ![l] = [@ EXCEPT !.pc = "returned", !.tokens = TRUE]]
  /\ UNCHANGED <<call, coreVars, clock, hist>>

\* time passes
Tick ==
  /\ clock < MaxTicks * TickMinutes
  /\ clock' = clock + TickMinutes
  /\ UNCHANGED <<call, coreVars, customers, login, hist>>

\* no function is called by itself
NoCall == [fn |-> "none", args |-> <<>>, out |-> <<>>]

\* the authentication service before any login
InitAuth(status) ==
  /\ customers = [id \in CustomerIds |-> NewCustomer(status)]
  /\ clock = 0
  /\ login = [l \in Logins |-> IdleLogin]

\* ---------------------------------------------------------------- Process
\* variant with a fault: Process without the deferred Rollback: the unit stays open
RollbackMissing(U) == U

\* defer dbTx.Rollback(ctx): what is left of the unit U when Process returns
\* (after a Commit the unit is empty already)
Rollback(U) == NoUnit

\* Process returns: the deferred Rollback ends the unit
Return(e, result) ==
  /\ proc' = [proc EXCEPT ![e] = [@ EXCEPT !.pc = "returned", !.result = result]]
  /\ unit' = [unit EXCEPT ![e] = Rollback(@)]

\* Process commits the unit U and returns
CommitAndReturn(e, U, result) ==
  /\ txs' = CommitTxs(U)
  /\ ledger' = CommitLedger(U)
  /\ hist' = Settle(hist, proc[e].id)
  /\ proc' = [proc EXCEPT ![e] = [@ EXCEPT !.pc = "returned", !.result = result]]
  /\ unit' = [unit EXCEPT ![e] = NoUnit]

\* Process, step 1: Begin and claimTransaction
ProcessClaim(e) ==
  /\ proc[e].pc = "claim"
  /\ ~Cancelled(e)
  /\ LET id == proc[e].id
     IN /\ ~LockedByOther(e, id)
        /\ IF claimTransaction(unit[e], id)
           THEN /\ unit' = [unit EXCEPT ![e] = WriteRow(@, id, ClaimRow(Visible(@, id)))]
                /\ proc' = [proc EXCEPT ![e].pc = "check"]
           ELSE Return(e, AlreadyHandled)
  /\ UNCHANGED <<call, authVars, sig, asyncMode, txs, parties, ledger, req, queue, wk, hist>>

\* Process, steps 2-4: getParties, the amount, getBalanceForUpdate
ProcessCheck(e) ==
  /\ proc[e].pc = "check"
  /\ ~Cancelled(e)
  /\ LET id == proc[e].id
         sourceAccountID == PartyAccount(id, "source")
         destAccountID == PartyAccount(id, "destination")
         amount == Visible(unit[e], id).amount
     IN IF sourceAccountID = NilAccount \/ destAccountID = NilAccount
        THEN CommitAndReturn(e, failTransaction(unit[e], id, "invalid transaction parties"),
                             BusinessFailure("invalid transaction parties"))
        ELSE IF amount = NullAmount
        THEN CommitAndReturn(e, failTransaction(unit[e], id, "invalid amount in transaction"),
                             BusinessFailure("invalid amount"))
        ELSE /\ proc' = [proc EXCEPT ![e].pc = "settle",
                                     ![e].balance = getBalanceForUpdate(unit[e], sourceAccountID),
                                     ![e].at = clock]
             /\ UNCHANGED <<txs, ledger, unit, hist>>
  /\ UNCHANGED <<call, authVars, sig, asyncMode, parties, req, queue, wk>>

\* the values of the clock
ClockValues == {k * TickMinutes : k \in 0..MaxTicks}

\* what time.Now() in buildTransferEntries can have returned when the unit
\* commits at the present clock: the statements of steps 4-6 take time, the
\* read is no earlier than the end of step 4's query (since) and no later
\* than the Commit
TimeNow(since) == {t \in ClockValues : since <= t /\ t <= clock}

\* Process, steps 4-6: hasSufficientFunds, then failTransaction and Commit, or
\* createLedgerEntries, completeTransaction and Commit
\* (proc[e].at is the clock when getBalanceForUpdate returned)
ProcessSettle(e) ==
  /\ proc[e].pc = "settle"
  /\ ~Cancelled(e)
  /\ \E now \in TimeNow(proc[e].at) :
     LET id == proc[e].id
         sourceAccountID == PartyAccount(id, "source")
         destAccountID == PartyAccount(id, "destination")
         amount == Visible(unit[e], id).amount
         entries == buildTransferEntries(ledger \cup unit[e].ledger, id,
                                         sourceAccountID, destAccountID, amount, now)
         written == createLedgerEntries(unit[e], entries)
     IN IF ~hasSufficientFunds(proc[e].balance, ColumnText(amount))
        THEN CommitAndReturn(e, failTransaction(unit[e], id, "insufficient funds"),
                             BusinessFailure("insufficient funds"))
        ELSE IF \E x \in Rows(entries) : ~EntryAccepted(x)
        THEN \* "failed to create ledger entries"
             /\ Return(e, SystemError)
             /\ hist' = [hist EXCEPT !.rolledBack = @ \cup {id}]
             /\ UNCHANGED <<txs, ledger>>
        ELSE IF ~CompleteMatches(written, id)
        THEN \* ErrInvalidTransactionState
             /\ Return(e, SystemError)
             /\ hist' = [hist EXCEPT !.rolledBack = @ \cup {id}]
             /\ UNCHANGED <<txs, ledger>>
        ELSE CommitAndReturn(e, completeTransaction(written, id), Completed)
  /\ UNCHANGED <<call, authVars, sig, asyncMode, parties, req, queue, wk>>

\* Process returns an error from Begin, a statement or Commit (storage
\* fault, context timeout or cancellation): the deferred Rollback runs
ProcessFault(e) ==
  /\ proc[e].pc \in {"claim", "check", "settle"}
  /\ Return(e, SystemError)
  /\ hist' = IF unit[e].txs # {}
             THEN [hist EXCEPT !.rolledBack = @ \cup {proc[e].id}]
             ELSE hist
  /\ UNCHANGED <<call, authVars, sig, asyncMode, txs, parties, ledger, req, queue, wk>>


\* ------------------------------------------------------------ CreateTransfer
Respond(r, code, id, status, via) ==
  [req[r] EXCEPT !.pc = "done",
                 !.resp = [code |-> code, transaction_id |-> id,
                           status |-> status, via |-> via]]

\* variant with a fault: the answer for an existing row says pending, as the
\* answer for a new one does
RespondExistingAsNew(r, key, via) ==
  LET id == CHOOSE x \in GetByIdempotencyKey(key) : TRUE
  IN [Respond(r, 202, id, "pending", via) EXCEPT !.key = key]

\* the 202 answer that carries an existing row's id and stored status
RespondExisting(r, key, via) ==
  LET id == CHOOSE x \in GetByIdempotencyKey(key) : TRUE
  IN [Respond(r, 202, id, txs[id].status, via) EXCEPT !.key = key]

\* CreateTransfer up to the insert: the Idempotency-Key header, the lookup by
\* key, the body and the account checks
CreateTransferStart(r) ==
  /\ req[r].pc = "start"
  /\ \E key \in Keys \cup {""}, body \in RequestBodies :
       req' = [req EXCEPT ![r] =
                 IF key = "" THEN Respond(r, 400, 0, "", "Idempotency-Key header is required")
                 ELSE IF GetByIdempotencyKey(key) # {} THEN RespondExisting(r, key, "lookup")
                 ELSE IF ValidateTransfer(body) # ""
                      THEN [Respond(r, 400, 0, "", ValidateTransfer(body)) EXCEPT !.key = key]
                 ELSE [@ EXCEPT !.pc = "create", !.key = key, !.body = body]]
  /\ UNCHANGED <<call, authVars, sig, asyncMode, txs, parties, ledger, unit, proc, queue, wk, hist>>

\* TransactionRepository.Create, then the branch on its result: on
\* ErrTransactionExists the row is fetched by key and returned
CreateTransferCreate(r) ==
  /\ req[r].pc = "create"
  /\ IF UniqueViolation(req[r].key)
     THEN /\ req' = [req EXCEPT ![r] = RespondExisting(r, req[r].key, "race")]
          /\ UNCHANGED <<txs, parties, proc>>
     ELSE LET id == NewTxId
          IN /\ txs' = txs @@ (id :> NewTransaction(req[r].key, req[r].body))
             /\ parties' = parties \cup NewParties(id, req[r].body)
             /\ IF asyncMode
                THEN /\ req' = [req EXCEPT ![r].pc = "publish", ![r].id = id]
                     /\ UNCHANGED proc
                ELSE /\ req' = [req EXCEPT ![r].pc = "process", ![r].id = id]
                     /\ proc' = [proc EXCEPT ![r] = [IdleProc EXCEPT !.pc = "claim", !.id = id]]
  /\ UNCHANGED <<call, authVars, sig, asyncMode, ledger, unit, queue, wk, hist>>

\* variant with a fault: Create without a database transaction, the row of
\* the transaction stays when the insert of a party fails
CreateTransferFaultKeepsRow(r) ==
  /\ req[r].pc = "create"
  /\ ~UniqueViolation(req[r].key)
  /\ txs' = txs @@ (NewTxId :> NewTransaction(req[r].key, req[r].body))
  /\ req' = [req EXCEPT ![r] = Respond(r, 500, 0, "", "Failed to create transfer")]
  /\ UNCHANGED <<call, authVars, sig, asyncMode, parties, ledger, unit, proc, queue, wk, hist>>

\* TransactionRepository.Create returns an error that is no unique violation
\* (Begin, an INSERT of the row or of a party, or Commit fails): its deferred
\* Rollback discards what it inserted, CreateTransfer answers 500
CreateTransferFault(r) ==
  /\ req[r].pc = "create"
  /\ req' = [req EXCEPT ![r] = Respond(r, 500, 0, "", "Failed to create transfer")]
  /\ UNCHANGED <<call, authVars, sig, asyncMode, txs, parties, ledger, unit, proc, queue, wk, hist>>

\* queue.TransactionMessage
Message(id) == [transaction_id |-> id, type |-> "transfer", published_at |-> 1]

\* variant with a fault: publishing also marks the transaction as processing
CreateTransferPublishMarks(r) ==
  /\ req[r].pc = "publish"
  /\ queue' = Append(queue, Message(req[r].id))
  /\ hist' = [hist EXCEPT !.published = @ \cup {req[r].id}]
  /\ txs' = [txs EXCEPT ![req[r].id].status = "processing"]
  /\ req' = [req EXCEPT ![r] = Respond(r, 202, req[r].id, "pending", "created")]
  /\ UNCHANGED <<call, authVars, sig, asyncMode, parties, ledger, unit, proc, wk>>

\* async mode: Publisher.PublishTransaction (RPUSH, which may fail and is
\* then only logged) and the 202 answer with status pending
CreateTransferPublish(r) ==
  /\ req[r].pc = "publish"
  /\ \E ok \in BOOLEAN :
       /\ queue' = IF ok THEN Append(queue, Message(req[r].id)) ELSE queue
       /\ hist' = IF ok THEN [hist EXCEPT !.published = @ \cup {req[r].id}] ELSE hist
  /\ req' = [req EXCEPT ![r] = Respond(r, 202, req[r].id, "pending", "created")]
  /\ UNCHANGED <<call, authVars, sig, asyncMode, txs, parties, ledger, unit, proc, wk>>

\* variant with a fault: FinalStatus that does not look at the error of Process
FinalStatusIgnoresError(result) ==
  IF ~result.Success /\ result.ErrorMessage # "" THEN "failed"
  ELSE "completed"

\* sync mode: the status CreateTransfer answers after Process returned
FinalStatus(result) ==
  IF result.err THEN "pending"
  ELSE IF ~result.Success /\ result.ErrorMessage # "" THEN "failed"
  ELSE "completed"

\* sync mode: the answer after the inline Process call returned
CreateTransferRespond(r) ==
  /\ req[r].pc = "process"
  /\ proc[r].pc = "returned"
  /\ req' = [req EXCEPT ![r] = Respond(r, 202, req[r].id, FinalStatus(proc[r].result), "created")]
  /\ proc' = [proc EXCEPT ![r] = IdleProc]
  /\ UNCHANGED <<call, authVars, sig, asyncMode, txs, parties, ledger, unit, queue, wk, hist>>

\* ------------------------------------------------------------------ Worker
\* variant with a fault: processMessage skips a message whose type it does
\* not know
processMessageByType(msg) ==
  IF msg.type = "transfer"
  THEN [IdleProc EXCEPT !.pc = "claim", !.id = msg.transaction_id]
  ELSE [IdleProc EXCEPT !.pc = "returned", !.id = msg.transaction_id,
                        !.result = AlreadyHandled]

\* processMessage: the call Process(ctx, msg.TransactionID) it makes for a
\* message; msg.Type is only logged, msg.PublishedAt is not read
processMessage(msg) == [IdleProc EXCEPT !.pc = "claim", !.id = msg.transaction_id]

\* Worker.Start: BLPOP takes the head of the list, processMessage calls Process
WorkerPop(w) ==
  /\ wk[w] = "idle"
  /\ ~sig[w].stop /\ ~sig[w].cancelled
  /\ queue # <<>>
  /\ queue' = Tail(queue)
  /\ wk' = [wk EXCEPT ![w] = "busy"]
  /\ proc' = [proc EXCEPT ![w] = processMessage(Head(queue))]
  /\ hist' = [hist EXCEPT !.delivered = @ \cup {Head(queue).transaction_id},
                           !.taken = @ \cup {Head(queue)}]
  /\ UNCHANGED <<call, authVars, sig, asyncMode, txs, parties, ledger, unit, req>>

\* processMessage after Process returned: the outcome is logged, whatever it
\* is, and the loop goes on
WorkerDone(w) ==
  /\ wk[w] = "busy"
  /\ proc[w].pc = "returned"
  /\ wk' = [wk EXCEPT ![w] = "idle"]
  /\ proc' = [proc EXCEPT ![w] = IdleProc]
  /\ UNCHANGED <<call, authVars, sig, asyncMode, txs, parties, ledger, unit, req, queue, hist>>

\* the worker process dies while it handles a message: its database
\* connection closes, which rolls its open transaction back
WorkerCrash(w) ==
  /\ wk[w] = "busy"
  /\ proc[w].pc # "returned"
  /\ wk' = [wk EXCEPT ![w] = "crashed"]
  /\ proc' = [proc EXCEPT ![w] = IdleProc]
  /\ unit' = [unit EXCEPT ![w] = NoUnit]
  /\ hist' = IF unit[w].txs # {}
             THEN [hist EXCEPT !.rolledBack = @ \cup {proc[w].id}]
             ELSE hist
  /\ UNCHANGED <<call, authVars, sig, asyncMode, txs, parties, ledger, req, queue>>

\* ----------------------------------------------------------------- callers
\* a direct call of Process(ctx, id), a redelivery or an operator's replay,
\* by a caller that has no call in flight
Invoke(c) ==
  /\ proc[c].pc \in {"idle", "returned"}
  /\ hist.calls < MaxCalls
  /\ \E id \in IdSpace :
       proc' = [proc EXCEPT ![c] = [IdleProc EXCEPT !.pc = "claim", !.id = id]]
  /\ hist' = [hist EXCEPT !.calls = @ + 1]
  /\ UNCHANGED <<call, authVars, sig, asyncMode, txs, parties, ledger, unit, req, queue, wk>>

\* the calling process dies inside Process: its database connection closes,
\* which rolls its open transaction back
CallerCrash(c) ==
  /\ proc[c].pc \in {"check", "settle"}
  /\ proc' = [proc EXCEPT ![c] = IdleProc]
  /\ unit' = [unit EXCEPT ![c] = NoUnit]
  /\ hist' = [hist EXCEPT !.rolledBack = @ \cup {proc[c].id}]
  /\ UNCHANGED <<call, authVars, sig, asyncMode, txs, parties, ledger, req, queue, wk>>

\* ------------------------------------------------------------ initial state
\* the transfer that funds account A with its opening balance n from the
\* bank equity account, completed before the system starts (id 1)
SeedId == 1
SeedRow(n) ==
  [ idempotency_key |-> "seed", status |-> "completed", amount |-> n,
    processed_at |-> TRUE, completed_at |-> TRUE, error_message |-> "" ]
SeedBody == [from_account_id |-> "EQ", to_account_id |-> "A",
             amount |-> "", currency |-> "NOK"]

\* the two ledger rows of the seed transfer
SeedEntries(n) ==
  { [ id |-> NewEntryId({}, SeedId, 1), transaction_id |-> SeedId,
      account_id |-> "EQ", amount |-> -n, entry_type |-> "debit", created_at |-> 0 ],
    [ id |-> NewEntryId({}, SeedId, 2), transaction_id |-> SeedId,
      account_id |-> "A", amount |-> n, entry_type |-> "credit", created_at |-> 0 ] }

InitStore(n) ==
  /\ txs = IF n = 0 THEN <<>> ELSE (SeedId :> SeedRow(n))
  /\ parties = IF n = 0 THEN {} ELSE NewParties(SeedId, SeedBody)
  /\ ledger = IF n = 0 THEN {} ELSE SeedEntries(n)

InitIdle ==
  /\ unit = [e \in Executors |-> NoUnit]
  /\ proc = [e \in Executors |-> IdleProc]
  /\ req = [r \in Requests |-> IdleReq]
  /\ queue = <<>>
  /\ wk = [w \in Workers |-> "idle"]
  /\ sig = [w \in Workers |-> NoSignal]
  /\ InitAuth("active")
  /\ call = NoCall
  /\ hist = NoHist

\* the system as wired by cmd/api and cmd/worker
Init ==
  /\ asyncMode \in BOOLEAN
  /\ \E n \in 0..MaxOpening : InitStore(n)
  /\ InitIdle

Next ==
  \/ \E r \in Requests : CreateTransferStart(r)
  \/ \E r \in Requests : CreateTransferCreate(r)
  \/ \E r \in Requests : CreateTransferFault(r)
  \/ \E r \in Requests : CreateTransferPublish(r)
  \/ \E r \in Requests : CreateTransferRespond(r)
  \/ \E w \in Workers : WorkerPop(w)
  \/ \E w \in Workers : WorkerDone(w)
  \/ \E w \in Workers : WorkerCrash(w)
  \/ \E e \in Requests \cup Workers : ProcessClaim(e)
  \/ \E e \in Requests \cup Workers : ProcessCheck(e)
  \/ \E e \in Requests \cup Workers : ProcessSettle(e)
  \/ \E e \in Requests \cup Workers : ProcessFault(e)

Spec == Init /\ [][Next]_vars


\* ------------------------------------------------- the engine on its own
\* transfers that intake accepted and that nobody has processed yet: the
\* rows and parties CreateTransfer creates for these bodies
PendingBodies ==
  {b \in RequestBodies :
     /\ ValidateTransfer(b) = ""
     /\ \/ b.from_account_id = "A"
        \/ b.from_account_id = "B" /\ b.amount = "0.0001"}

PendingIds == (SeedId + 1)..(SeedId + MaxPending)
PendingKey(id) == IF id = SeedId + 1 THEN "k1" ELSE IF id = SeedId + 2 THEN "k2" ELSE "k3"

\* the store after the seed transfer and the intake of one transfer per id
PendingStore(Bodies) ==
  \E n \in 0..MaxOpening : \E body \in [PendingIds -> Bodies] :
    /\ txs = [id \in (IF n = 0 THEN {} ELSE {SeedId}) \cup PendingIds |->
                IF id = SeedId THEN SeedRow(n)
                ELSE NewTransaction(PendingKey(id), body[id])]
    /\ parties = (IF n = 0 THEN {} ELSE NewParties(SeedId, SeedBody))
                   \cup UNION {NewParties(id, body[id]) : id \in PendingIds}
    /\ ledger = IF n = 0 THEN {} ELSE SeedEntries(n)

InitProcess ==
  /\ asyncMode = FALSE
  /\ PendingStore(PendingBodies)
  /\ InitIdle

NextProcess ==
  \/ \E c \in Callers : Invoke(c)
  \/ \E c \in Callers : ProcessClaim(c)
  \/ \E c \in Callers : ProcessCheck(c)
  \/ \E c \in Callers : ProcessSettle(c)
  \/ \E c \in Callers : ProcessFault(c)
  \/ \E c \in Callers : CallerCrash(c)

\* concurrent calls of Process on the transfers intake left pending
SpecProcess == InitProcess /\ [][NextProcess]_vars

\* ------------------------------------------- TransactionRepository.UpdateStatus
TransactionStatuses == {"pending", "processing", "completed", "failed"}

\* variant with a fault: UpdateStatus that moves to processing from completed
RequiredStatusReopen(status) ==
  CASE status = "processing" -> "completed"
    [] status = "completed"  -> "processing"
    [] status = "failed"     -> "processing"
    [] OTHER                 -> ""

\* the status the UPDATE of UpdateStatus requires (WHERE status = ...); "" for
\* a target status the switch has no case for
RequiredStatus(status) ==
  CASE status = "processing" -> "pending"
    [] status = "completed"  -> "processing"
    [] status = "failed"     -> "processing"
    [] OTHER                 -> ""

\* the row after the SET clause of UpdateStatus
UpdatedRow(row, status, errorMessage) ==
  CASE status = "processing" -> [row EXCEPT !.status = status, !.processed_at = TRUE]
    [] status = "completed"  -> [row EXCEPT !.status = status, !.completed_at = TRUE]
    [] status = "failed"     -> [row EXCEPT !.status = status, !.completed_at = TRUE,
                                            !.error_message = errorMessage]
    [] OTHER                 -> row

\* variant with a fault: UpdateStatus that reports no error when no row matches
UpdateStatusErrorSilent(id, status, fault) ==
  IF RequiredStatus(status) = "" THEN "ErrInvalidTransactionState"
  ELSE IF fault THEN "failed to update transaction status"
  ELSE ""

\* the error UpdateStatus returns, "" for nil: the default case of the switch,
\* then the error of Exec, then RowsAffected() == 0
UpdateStatusError(id, status, fault) ==
  IF RequiredStatus(status) = "" THEN "ErrInvalidTransactionState"
  ELSE IF fault THEN "failed to update transaction status"
  ELSE IF ~(id \in DOMAIN txs /\ txs[id].status = RequiredStatus(status))
       THEN "ErrInvalidTransactionState"
  ELSE ""

\* UpdateStatus(ctx, id, status, errorMessage), one statement on the pool
\* (it waits while an open transaction has updated the row); the statement
\* may fail (fault); no row changes unless nil is returned
UpdateStatus(id, status, errorMessage) ==
  /\ hist.calls < MaxCalls
  /\ \A e \in Executors : \A u \in unit[e].txs : u.id # id
  /\ \E fault \in BOOLEAN :
       /\ hist' = [hist EXCEPT !.calls = @ + 1,
                               !.update = [id |-> id, status |-> status,
                                           err |-> UpdateStatusError(id, status, fault)]]
       /\ txs' = IF /\ ~fault
                    /\ id \in DOMAIN txs
                    /\ RequiredStatus(status) # ""
                    /\ txs[id].status = RequiredStatus(status)
                 THEN [txs EXCEPT ![id] = UpdatedRow(@, status, errorMessage)]
                 ELSE txs
  /\ UNCHANGED <<call, authVars, sig, asyncMode, parties, ledger, unit, proc, req, queue, wk>>

\* UpdateStatus does not look at a transfer's accounts or amount: the
\* transfers of one unit out of account A are enough (they complete when A
\* was funded and fail when it was not)
RepositoryBodies ==
  {b \in PendingBodies : b.from_account_id = "A" /\ b.amount = "0.0001"}

InitRepository ==
  /\ asyncMode = FALSE
  /\ PendingStore(RepositoryBodies)
  /\ InitIdle

NextRepository ==
  \/ NextProcess
  \/ \E id \in IdSpace, status \in TransactionStatuses :
       UpdateStatus(id, status, "error")

\* the engine together with direct callers of the repository's UpdateStatus
SpecRepository == InitRepository /\ [][NextRepository]_vars


\* --------------------------------------------------- the dispatch on its own
\* messages as any producer may have pushed them: for a pending transfer, of
\* either type, published at either of two times
MessageSpace ==
  [ transaction_id : PendingIds, type : {"transfer", "deposit"}, published_at : {1, 2} ]

\* the store after intake, and one message in the list per worker
InitDispatch ==
  /\ asyncMode = TRUE
  /\ PendingStore(RepositoryBodies)
  /\ unit = [e \in Executors |-> NoUnit]
  /\ proc = [e \in Executors |-> IdleProc]
  /\ req = [r \in Requests |-> IdleReq]
  /\ queue \in [1..Cardinality(Workers) -> MessageSpace]
  /\ wk = [w \in Workers |-> "idle"]
  /\ sig = [w \in Workers |-> NoSignal]
  /\ InitAuth("active")
  /\ call = NoCall
  /\ hist = NoHist

NextDispatch ==
  \/ \E w \in Workers : WorkerPop(w)
  \/ \E w \in Workers : WorkerDone(w)
  \/ \E w \in Workers : WorkerCrash(w)
  \/ \E w \in Workers : ProcessClaim(w)
  \/ \E w \in Workers : ProcessCheck(w)
  \/ \E w \in Workers : ProcessSettle(w)
  \/ \E w \in Workers : ProcessFault(w)

\* the workers over a list of messages
SpecDispatch == InitDispatch /\ [][NextDispatch]_vars


\* ------------------------------------------------- the worker's shutdown
\* Worker.Stop: close(w.stopCh), called once
Stop(w) ==
  /\ wk[w] \notin {"stopped", "crashed"}
  /\ ~sig[w].stop
  /\ sig' = [sig EXCEPT ![w].stop = TRUE]
  /\ UNCHANGED <<call, authVars, asyncMode, txs, parties, ledger, unit, proc, req, queue, wk, hist>>

\* cancel() of the context main passes to Start
Cancel(w) ==
  /\ wk[w] \notin {"stopped", "crashed"}
  /\ ~sig[w].cancelled
  /\ sig' = [sig EXCEPT ![w].cancelled = TRUE]
  /\ UNCHANGED <<call, authVars, asyncMode, txs, parties, ledger, unit, proc, req, queue, wk, hist>>

\* variant with a fault: a loop without the select on ctx.Done and stopCh
WorkerSelectBlind(w) ==
  /\ wk[w] = "idle"
  /\ wk' = [wk EXCEPT ![w] = "polling"]
  /\ UNCHANGED <<call, authVars, sig, asyncMode, txs, parties, ledger, unit, proc, req, queue, hist>>

\* Worker.Start, the select at the top of the loop: return when ctx is done
\* or stopCh is closed, else (default) go on to BLPop
WorkerSelect(w) ==
  /\ wk[w] = "idle"
  /\ wk' = [wk EXCEPT ![w] = IF sig[w].cancelled \/ sig[w].stop THEN "stopped"
                                                                 ELSE "polling"]
  /\ UNCHANGED <<call, authVars, sig, asyncMode, txs, parties, ledger, unit, proc, req, queue, hist>>

\* Worker.Start, BLPop(ctx, 5s) returns: with the context's error (Start
\* returns), with a message (processMessage calls Process), or with
\* redis.Nil after the wait or another error (the loop goes on)
WorkerBLPop(w) ==
  /\ wk[w] = "polling"
  /\ \/ /\ sig[w].cancelled
        /\ wk' = [wk EXCEPT ![w] = "stopped"]
        /\ UNCHANGED <<queue, proc, sig, hist>>
     \/ /\ ~sig[w].cancelled
        /\ queue # <<>>
        /\ queue' = Tail(queue)
        /\ wk' = [wk EXCEPT ![w] = "busy"]
        /\ proc' = [proc EXCEPT ![w] = processMessage(Head(queue))]
        /\ sig' = [sig EXCEPT ![w].late = IF sig[w].stop THEN @ + 1 ELSE @]
        /\ hist' = [hist EXCEPT !.delivered = @ \cup {Head(queue).transaction_id},
                                 !.taken = @ \cup {Head(queue)}]
     \/ /\ ~sig[w].cancelled
        /\ wk' = [wk EXCEPT ![w] = "idle"]
        /\ UNCHANGED <<queue, proc, sig, hist>>
  /\ UNCHANGED <<call, authVars, asyncMode, txs, parties, ledger, unit, req>>

\* how a worker shuts down does not depend on what the transfers are: one
\* body is enough
ShutdownBodies == {BaseBody}

\* one message per worker in the list
InitShutdown ==
  /\ asyncMode = TRUE
  /\ PendingStore(ShutdownBodies)
  /\ unit = [e \in Executors |-> NoUnit]
  /\ proc = [e \in Executors |-> IdleProc]
  /\ req = [r \in Requests |-> IdleReq]
  /\ queue = [i \in 1..Cardinality(Workers) |-> Message(SeedId + i)]
  /\ wk = [w \in Workers |-> "idle"]
  /\ sig = [w \in Workers |-> NoSignal]
  /\ InitAuth("active")
  /\ call = NoCall
  /\ hist = NoHist

\* the steps of worker w's goroutine
WorkerStep(w) ==
  \/ WorkerSelect(w)
  \/ WorkerBLPop(w)
  \/ WorkerDone(w)
  \/ ProcessClaim(w)
  \/ ProcessCheck(w)
  \/ ProcessSettle(w)
  \/ ProcessFault(w)

NextShutdown ==
  \/ \E w \in Workers : Stop(w)
  \/ \E w \in Workers : Cancel(w)
  \/ \E w \in Workers : WorkerSelect(w)
  \/ \E w \in Workers : WorkerBLPop(w)
  \/ \E w \in Workers : WorkerDone(w)
  \/ \E w \in Workers : ProcessClaim(w)
  \/ \E w \in Workers : ProcessCheck(w)
  \/ \E w \in Workers : ProcessSettle(w)
  \/ \E w \in Workers : ProcessFault(w)

\* the workers with shutdown signals; a worker's goroutine keeps running
\* (the Go scheduler, and every Redis and database call returns)
SpecShutdown ==
  /\ InitShutdown
  /\ [][NextShutdown]_vars
  /\ \A w \in Workers : WF_vars(WorkerStep(w))

\* ------------------------------------------------- reading a transaction
\* GetTransaction (GET /transactions/{id}): 404 when no row has the id, else
\* 200 with the row and the accounts of its parties
GetTransaction(r) ==
  /\ req[r].pc = "start"
  /\ \E id \in IdSpace :
       req' = [req EXCEPT ![r] =
                 IF id \notin DOMAIN txs
                 THEN Respond(r, 404, 0, "", "Transaction not found")
                 ELSE Respond(r, 200, id, txs[id].status, "GetTransaction")]
  /\ UNCHANGED <<call, authVars, sig, asyncMode, txs, parties, ledger, unit, proc, queue, wk, hist>>

NextQuery ==
  \/ NextProcess
  \/ \E r \in Requests : GetTransaction(r)

\* customers reading transactions while the engine processes them
SpecQuery == InitRepository /\ [][NextQuery]_vars

\* ------------------------------------------------- the login on its own
InitLogin ==
  /\ asyncMode = FALSE
  /\ InitStore(0)
  /\ unit = [e \in Executors |-> NoUnit]
  /\ proc = [e \in Executors |-> IdleProc]
  /\ req = [r \in Requests |-> IdleReq]
  /\ queue = <<>>
  /\ wk = [w \in Workers |-> "idle"]
  /\ sig = [w \in Workers |-> NoSignal]
  /\ hist = NoHist
  /\ \E status \in {"active", "suspended"} : InitAuth(status)
  /\ call = NoCall

NextLogin ==
  \/ \E l \in Logins : LoginStart(l)
  \/ \E l \in Logins : LoginIncrement(l)
  \/ \E l \in Logins : LoginLock(l)
  \/ \E l \in Logins : LoginReset(l)
  \/ \E l \in Logins : LoginTokens(l)
  \/ Tick

\* concurrent logins of one customer while time passes
SpecLogin == InitLogin /\ [][NextLogin]_vars

\* ------------------------------------------- the system with running workers
\* one request: CreateTransfer, with the Process call of synchronous mode
RequestStep(r) ==
  \/ CreateTransferStart(r)
  \/ CreateTransferCreate(r)
  \/ CreateTransferFault(r)
  \/ CreateTransferPublish(r)
  \/ CreateTransferRespond(r)
  \/ ProcessClaim(r)
  \/ ProcessCheck(r)
  \/ ProcessSettle(r)

\* one worker that keeps running: Worker.Start's loop, with its Process calls
WorkerRun(w) ==
  \/ WorkerPop(w)
  \/ WorkerDone(w)
  \/ ProcessClaim(w)
  \/ ProcessCheck(w)
  \/ ProcessSettle(w)

\* the wired system without worker crashes; a storage fault may hit any
\* Process call, but is never forced to
NextRunning ==
  \/ \E r \in Requests : RequestStep(r)
  \/ \E w \in Workers : WorkerRun(w)
  \/ \E e \in Requests \cup Workers : ProcessFault(e)

\* account "A" funded, either mode; every HTTP handler goroutine and every
\* worker goroutine keeps being scheduled (the Go runtime); faults carry no
\* fairness
InitRunning ==
  /\ asyncMode \in BOOLEAN
  /\ InitStore(MaxOpening)
  /\ InitIdle

SpecRunning ==
  /\ InitRunning
  /\ [][NextRunning]_vars
  /\ \A r \in Requests : WF_vars(RequestStep(r))
  /\ \A w \in Workers : WF_vars(WorkerRun(w))

\* ------------------------------------------------ point-in-time balances
\* LedgerRepository.GetBalanceAtTime: COALESCE(SUM(amount), 0) over the
\* committed rows of the account with created_at <= asOf
BalanceAtTime(L, a, asOf) == SumAmounts({x \in EntriesOn(L, a) : x.created_at <= asOf})

\* a call of GetBalanceAtTime for a time that has passed; the answer is kept
GetBalanceAtTime(a, asOf) ==
  /\ Cardinality(hist.seen) < MaxQueries
  /\ asOf < clock
  /\ hist' = [hist EXCEPT !.seen = @ \cup {[account |-> a, as_of |-> asOf,
                                            balance |-> BalanceAtTime(ledger, a, asOf)]}]
  /\ UNCHANGED <<call, coreVars, authVars>>

InitBalance ==
  /\ asyncMode = FALSE
  /\ PendingStore(RepositoryBodies)
  /\ InitIdle

NextBalance ==
  \/ NextProcess
  \/ Tick
  \/ \E a \in {"A", "B"}, asOf \in ClockValues : GetBalanceAtTime(a, asOf)

\* the engine, the clock and readers of point-in-time balances
SpecBalance == InitBalance /\ [][NextBalance]_vars

\* --------------------------------------------- the functions by themselves
\* the currency strings Validate is applied to
CurrencyInputs == {"NOK", "USD", "NO", "NOKK", "", "N<U+00F8>"}

\* the requests Validate is applied to
ValidateInputs ==
  [ from_account_id : {"A", "B", NilAccount},
    to_account_id   : {"A", "B", NilAccount},
    amount          : {"", "0.0001", "abc"},
    currency        : CurrencyInputs ]

\* the transaction ids buildTransferEntries is applied to
BuildIds == {"t1", "t2"}

\* the calls: every function with every argument list of the sets above;
\* hasSufficientFunds takes the balance in 0.0001 units, buildTransferEntries
\* the amount as the column keeps it and the time.Now() it will read
CallInputs ==
       {[fn |-> "validateAmount", args |-> <<s>>, out |-> <<>>] : s \in AmountInputs}
  \cup {[fn |-> "hasSufficientFunds", args |-> <<b, s>>, out |-> <<>>] :
          b \in -1..MaxOpening, s \in AmountInputs \cup {ColumnText(n) : n \in 0..MaxOpening}}
  \cup {[fn |-> "Validate", args |-> <<r>>, out |-> <<>>] : r \in ValidateInputs}
  \cup {[fn |-> "buildTransferEntries", args |-> <<id, from, to, a, now>>, out |-> <<>>] :
          id \in BuildIds, from \in {"A", "B"}, to \in {"A", "B"},
          a \in 0..MaxOpening, now \in {k * TickMinutes : k \in 0..MaxTicks}}

\* the function has not returned yet
Called(fn) == call.fn = fn /\ call.out = <<>>

\* the call returns x
CallReturns(x) ==
  /\ call' = [call EXCEPT !.out = <<x>>]
  /\ UNCHANGED <<coreVars, authVars, hist>>

CallValidateAmount ==
  /\ Called("validateAmount")
  /\ CallReturns(IF validateAmount(call.args[1]) THEN "" ELSE "ErrInvalidAmount")

CallHasSufficientFunds ==
  /\ Called("hasSufficientFunds")
  /\ CallReturns(hasSufficientFunds(call.args[1], call.args[2]))

CallValidate ==
  /\ Called("Validate")
  /\ CallReturns(Validate(call.args[1]))

CallBuildTransferEntries ==
  /\ Called("buildTransferEntries")
  /\ CallReturns(buildTransferEntries({}, call.args[1], call.args[2], call.args[3],
                                 call.args[4], call.args[5]))

InitFunctions ==
  /\ asyncMode = FALSE
  /\ InitStore(0)
  /\ unit = [e \in Executors |-> NoUnit]
  /\ proc = [e \in Executors |-> IdleProc]
  /\ req = [r \in Requests |-> IdleReq]
  /\ queue = <<>>
  /\ wk = [w \in Workers |-> "idle"]
  /\ sig = [w \in Workers |-> NoSignal]
  /\ InitAuth("active")
  /\ call \in CallInputs
  /\ hist = NoHist

NextFunctions ==
  \/ CallValidateAmount
  \/ CallHasSufficientFunds
  \/ CallValidate
  \/ CallBuildTransferEntries

SpecFunctions == InitFunctions /\ [][NextFunctions]_vars

\* ================================================================ claims
\* the opening balance of an account: what the seed transfer put on it
Opening(a) == Balance(EntriesOf(ledger, SeedId), a)
Terminal == {"completed", "failed"}

\* C1: for every idempotency key at most one transaction row exists, and
\* every CreateTransfer request answered 202 carries the id of the one row
\* with its key, also when it lost the insert race and fetched the row by key;
\* a request with a key gets another answer only when validation rejects it
\* or the storage fails
C1_OneRecordPerKey ==
  /\ \A key \in Keys : Cardinality(GetByIdempotencyKey(key)) <= 1
  /\ \A r \in Requests :
       (req[r].pc = "done" /\ req[r].resp.code = 202)
         => GetByIdempotencyKey(req[r].key) = {req[r].resp.transaction_id}
  /\ \A r \in Requests :
       (req[r].pc = "done" /\ req[r].key # "" /\ req[r].resp.code # 202)
         => \/ req[r].resp.code = 400
            \/ req[r].resp.code = 500 /\ req[r].resp.via = "Failed to create transfer"

\* C1 witness: two requests with one key, one created the row, the other lost
\* the insert race, and both were answered with the same id
C1_Witness ==
  \E r1, r2 \in Requests :
    /\ r1 # r2
    /\ req[r1].pc = "done" /\ req[r2].pc = "done"
    /\ req[r1].key = req[r2].key
    /\ req[r1].resp.via = "created"
    /\ req[r2].resp.via = "race"
    /\ req[r1].resp.transaction_id = req[r2].resp.transaction_id


\* transfers other than the seed whose source party is account a
TransfersFrom(a) ==
  {id \in DOMAIN txs : id # SeedId /\ PartyAccount(id, "source") = a}
TransfersTo(a) ==
  {id \in DOMAIN txs : id # SeedId /\ PartyAccount(id, "destination") = a}

\* C2 (the claim as stated): an account with balance B > 0, no transfer
\* arriving, and two or more transfers out of it of amount B each: at most
\* one of them is completed, and one that failed failed for insufficient funds
C2_NoDoubleSpend ==
  \A a \in {"A", "B"} :
    LET out == {id \in TransfersFrom(a) : txs[id].amount = Opening(a)}
    IN (Opening(a) > 0 /\ Cardinality(out) >= 2 /\ TransfersTo(a) = {})
         => /\ Cardinality({id \in out : txs[id].status = "completed"}) <= 1
            /\ \A id \in out : txs[id].status = "failed"
                                 => txs[id].error_message = "insufficient funds"

\* the ledger rows of a completed transfer: one debit of the amount on the
\* source party and one credit of the amount on the destination party
IsTransferPair(E, id) ==
  /\ Cardinality(E) = 2
  /\ \E d, c \in E :
       /\ d.entry_type = "debit" /\ d.account_id = PartyAccount(id, "source")
       /\ d.amount = -txs[id].amount
       /\ c.entry_type = "credit" /\ c.account_id = PartyAccount(id, "destination")
       /\ c.amount = txs[id].amount

\* C3: a transaction is completed exactly when its two ledger rows exist (the
\* debit on its source, the credit on its destination); a pending or failed
\* transaction has no ledger row; a transaction has no rows or both
C3_LedgerMatchesStatus ==
  \A id \in DOMAIN txs :
    LET E == EntriesOf(ledger, id)
    IN /\ txs[id].status = "completed" <=> IsTransferPair(E, id)
       /\ txs[id].status \in {"pending", "failed"} => E = {}
       /\ Cardinality(E) \in {0, 2}

\* C3 witness: Process completed one transfer, with its pair of rows, and
\* failed another, which has none
C3_Witness ==
  \E i, j \in PendingIds \cap DOMAIN txs :
    /\ txs[i].status = "completed" /\ IsTransferPair(EntriesOf(ledger, i), i)
    /\ txs[j].status = "failed" /\ EntriesOf(ledger, j) = {}

\* C4: the amounts of the ledger rows of every transaction sum to zero
C4_EntriesSumToZero ==
  \A id \in IdSpace : SumAmounts(EntriesOf(ledger, id)) = 0

\* C4 witness: Process wrote the rows of a transfer
C4_Witness ==
  \E id \in PendingIds :
    /\ EntriesOf(ledger, id) # {}
    /\ hist.settled[id] = 1


\* the executors whose open transaction has updated row id
Holders(Un, id) == {e \in Executors : \E u \in Un[e].txs : u.id = id}

\* executor e takes a step of Process from position pc
Steps(e, pc) == proc[e].pc = pc /\ proc'[e] # proc[e]

\* executor e's call of Process returns without an error in this step
ReturnsNil(e) ==
  /\ proc[e].pc \in {"claim", "check", "settle"}
  /\ proc'[e].pc = "returned"
  /\ ~proc'[e].result.err

\* the claim of executor e does not match in this step
LosesClaim(e) == Steps(e, "claim") /\ proc'[e].pc = "returned" /\ ~proc'[e].result.err

C5_OneHolder ==
  \A id \in IdSpace :
    /\ Cardinality(Holders(unit, id)) <= 1
    /\ hist.settled[id] <= 1

C5_LoserStep ==
  \A e \in Executors :
    LosesClaim(e)
      => /\ proc'[e].result = AlreadyHandled
         /\ txs' = txs /\ ledger' = ledger /\ parties' = parties
         /\ unit'[e] = NoUnit

\* C5: of the Process calls that run concurrently on one pending transaction
\* at most one holds the claim at any time and at most one commits a final
\* status; a call whose claim does not match returns 'already handled' and
\* changes no table
C5_ExactlyOneWinner == [](C5_OneHolder) /\ [][C5_LoserStep]_vars

\* C5 witness: two callers ran Process on the same pending transfer at the
\* same time; one completed it, the other got 'already handled'
C5_Witness ==
  \E id \in PendingIds :
    /\ proc["c1"].id = id /\ proc["c2"].id = id
    /\ proc["c1"].pc = "returned" /\ proc["c2"].pc = "returned"
    /\ hist.calls >= 2 /\ hist.rolledBack = {}
    /\ proc["c1"].result = Completed
    /\ proc["c2"].result = AlreadyHandled
    /\ txs[id].status = "completed"

\* the newest version of row id: an open transaction's write of it, else the
\* committed row
CurIn(T, Un, id) ==
  IF Holders(Un, id) # {}
  THEN (CHOOSE u \in Un[CHOOSE e \in Holders(Un, id) : TRUE].txs : u.id = id).row
  ELSE T[id]

Allowed(s, t) ==
  \/ s = t
  \/ s = "pending" /\ t = "processing"
  \/ s = "processing" /\ t \in Terminal

\* an open transaction that had updated row id ends without commit in this step
RolledBack(id) ==
  /\ Holders(unit, id) # {}
  /\ Holders(unit', id) = {}
  /\ txs' = txs

C6_Step ==
  \A id \in DOMAIN txs :
    /\ RolledBack(id) \/ Allowed(CurIn(txs, unit, id).status, CurIn(txs', unit', id).status)
    /\ txs[id].status \in Terminal => txs'[id].status = txs[id].status
    /\ txs[id].status = "processing" => txs'[id].status \in {"processing"} \cup Terminal

\* C6: every change of a transaction's status, by Process or by UpdateStatus,
\* is pending -> processing, processing -> completed or processing -> failed
\* (a rollback undoes an uncommitted change), and a committed completed or
\* failed status never changes
C6_MonotonicStatus == [][C6_Step]_vars

\* C6 witness: UpdateStatus moved one transaction to processing and Process
\* took another from pending to completed
C6_Witness ==
  \E i, j \in PendingIds :
    /\ i # j
    /\ txs[i].status = "processing" /\ hist.settled[i] = 0
    /\ txs[j].status = "completed" /\ hist.settled[j] = 1

C7_Step ==
  /\ \A e \in Executors :
       (Steps(e, "claim") /\ ~(proc[e].id \in DOMAIN txs /\ txs[proc[e].id].status = "pending"))
         => /\ proc'[e].pc = "returned"
            /\ ~proc'[e].result.err => proc'[e].result = AlreadyHandled
            /\ txs' = txs /\ ledger' = ledger /\ parties' = parties
            /\ unit'[e] = NoUnit
  /\ \A id \in DOMAIN txs :
       txs[id].status # "pending"
         => txs'[id] = txs[id] /\ EntriesOf(ledger', id) = EntriesOf(ledger, id)

\* C7: a call of Process on an id whose transaction is not pending (completed,
\* failed or not existing) never claims, changes no row of any table, and,
\* unless the storage itself fails, returns the 'already handled' result with
\* a nil error; no step changes a non-pending transaction or its ledger rows
C7_RedeliverySafe == [][C7_Step]_vars

\* C7 witness: Process was called twice on the completed seed transfer and
\* returned 'already handled' both times
C7_Witness ==
  /\ SeedId \in DOMAIN txs
  /\ hist.calls = 2
  /\ \A c \in Callers :
       /\ proc[c].id = SeedId
       /\ proc[c].pc = "returned"
       /\ proc[c].result = AlreadyHandled
  /\ Cardinality(EntriesOf(ledger, SeedId)) = 2

\* executor e's call of Process ends without commit in this step: it returns
\* an error, or its process dies
EndsBeforeCommit(e) ==
  /\ proc[e].pc \in {"claim", "check", "settle"}
  /\ \/ proc'[e].pc = "returned" /\ proc'[e].result.err
     \/ proc'[e].pc = "idle"

ClaimableIn(T, Un, id) ==
  /\ id \in DOMAIN T
  /\ T[id].status = "pending"
  /\ Holders(Un, id) = {}

C8_Step ==
  \A e \in Executors :
    EndsBeforeCommit(e)
      => /\ txs' = txs /\ ledger' = ledger
         /\ unit'[e] = NoUnit
         /\ Holders(unit, proc[e].id) = {e}
              => /\ ClaimableIn(txs', unit', proc[e].id)
                 /\ EntriesOf(ledger', proc[e].id) = {}

\* C8: when a call of Process ends before its commit (a statement or the
\* commit fails, the context ends, the process dies), nothing it wrote
\* remains: the tables are unchanged, the claimed transaction is pending and
\* unlocked, it has no ledger row, and a later call can claim it
C8_RollbackRestores == [][C8_Step]_vars

\* C8 witness: a claim was rolled back and a later call of Process completed
\* the same transfer
C8_Witness ==
  \E id \in hist.rolledBack :
    /\ txs[id].status = "completed"
    /\ hist.settled[id] = 1
    /\ IsTransferPair(EntriesOf(ledger, id), id)

C9_Step ==
  \A e \in Executors :
    LET id == proc[e].id
    IN (/\ Steps(e, "settle")
        /\ ReturnsNil(e)
        /\ proc[e].balance < CurIn(txs, unit, id).amount)
         => /\ txs'[id].status = "failed"
            /\ txs'[id].error_message = "insufficient funds"
            /\ ledger' = ledger
            /\ \A a \in AccountIds : Balance(ledger', a) = Balance(ledger, a)
            /\ proc'[e].result = BusinessFailure("insufficient funds")
            /\ ~proc'[e].result.Success /\ ~proc'[e].result.err

C9_BalanceRead ==
  \A e \in Executors :
    (Steps(e, "check") /\ proc'[e].pc = "settle")
      => proc'[e].balance = Balance(ledger, PartyAccount(proc[e].id, "source"))

\* C9: the balance Process reads is the source account's committed balance,
\* and when it is less than the amount the step that follows commits the
\* transaction as failed with 'insufficient funds', writes no ledger row,
\* leaves every balance as it was and returns Success = false with no error
C9_InsufficientFunds == [][C9_Step /\ C9_BalanceRead]_vars

\* C9 witness: a transfer of more than the source held was failed
C9_Witness ==
  \E id \in PendingIds : \E c \in Callers :
    /\ proc[c].id = id /\ proc[c].pc = "returned"
    /\ proc[c].result = BusinessFailure("insufficient funds")
    /\ proc[c].balance < txs[id].amount
    /\ txs[id].status = "failed"
    /\ EntriesOf(ledger, id) = {}

\* C10 (the claim as stated): a published message whose transaction is still
\* pending is in the queue or in the hands of a worker that is handling it, so
\* that it is delivered again after an error or a crash
C10_Redelivered ==
  \A id \in hist.published :
    txs[id].status = "pending"
      => \/ \E i \in 1..Len(queue) : queue[i].transaction_id = id
         \/ \E w \in Workers : wk[w] = "busy" /\ proc[w].id = id


\* executor e's call of Process commits its transfer as completed in this step
CompletesTransfer(e) == Steps(e, "settle") /\ proc'[e].pc = "returned" /\ proc'[e].result = Completed

C11_Step ==
  \A e \in Executors :
    LET id == proc[e].id
        S == PartyAccount(id, "source")
        D == PartyAccount(id, "destination")
        A == txs[id].amount
    IN CompletesTransfer(e)
         => /\ txs'[id].status = "completed"
            /\ Balance(ledger', S) = Balance(ledger, S) - A
            /\ Balance(ledger', D) = Balance(ledger, D) + A
            /\ \A a \in AccountIds \ {S, D} : Balance(ledger', a) = Balance(ledger, a)
            /\ EntriesOf(ledger, id) = {}
            /\ Cardinality(EntriesOf(ledger', id)) = 2
            /\ ledger' \ ledger = EntriesOf(ledger', id)

\* C11: the step in which Process completes a transfer of amount A from S to
\* D lowers the balance of S by A, raises the balance of D by A, leaves every
\* other balance as it was, and leaves exactly two ledger rows of the transfer
C11_CompletionMovesAmount == [][C11_Step]_vars

\* C11 witness: Process completed a transfer of two units from A to B
C11_Witness ==
  \E id \in PendingIds : \E c \in Callers :
    /\ proc[c].id = id /\ proc[c].pc = "returned" /\ proc[c].result = Completed
    /\ PartyAccount(id, "source") = "A" /\ PartyAccount(id, "destination") = "B"
    /\ txs[id].amount = 2
    /\ Balance(ledger, "B") = 2 /\ Balance(ledger, "A") = Opening("A") - 2


\* what the gateway asks of a request body: two different accounts, both
\* existing and active, a well-formed positive amount, one currency throughout
ValidRequest(b) ==
  /\ b.from_account_id # b.to_account_id
  /\ b.amount \in AmountStrings /\ WellFormed(b.amount) /\ ParseFloat(b.amount) > 0
  /\ b.from_account_id \in AccountIds /\ b.to_account_id \in AccountIds
  /\ AccountTable[b.from_account_id].status = "active"
  /\ AccountTable[b.to_account_id].status = "active"
  /\ AccountTable[b.from_account_id].currency = AccountTable[b.to_account_id].currency
  /\ b.currency = AccountTable[b.from_account_id].currency

C12_Rejects == \A b \in RequestBodies : ~ValidRequest(b) => ValidateTransfer(b) # ""

C12_Step ==
  \A r \in Requests :
    req[r].pc = "start" /\ req'[r] # req[r]
      => /\ req'[r].pc = "create"
              => req'[r].key # "" /\ ValidRequest(req'[r].body)
         /\ (req'[r].pc = "done" /\ GetByIdempotencyKey(req'[r].key) = {})
              => /\ req'[r].resp.code = 400
                 /\ req'[r].resp.transaction_id = 0
                 /\ txs' = txs /\ parties' = parties /\ queue' = queue
                 /\ ledger' = ledger

C13_Step ==
  \A r \in Requests :
    (/\ req[r].pc = "start" /\ req'[r] # req[r]
     /\ GetByIdempotencyKey(req'[r].key) # {})
      => /\ req'[r].pc = "done"
         /\ req'[r].resp.code = 202
         /\ GetByIdempotencyKey(req'[r].key) = {req'[r].resp.transaction_id}
         /\ req'[r].resp.status = txs[req'[r].resp.transaction_id].status
         /\ txs' = txs /\ parties' = parties /\ ledger' = ledger
         /\ queue' = queue /\ hist' = hist
         /\ proc' = proc /\ unit' = unit

\* C13: a CreateTransfer request whose key already has a transaction is
\* answered 202 with that transaction's id and the status stored at that
\* moment, and the step changes no table, publishes no message and starts no
\* Process call
C13_ReplayReturnsExisting == [][C13_Step]_vars

\* C13 witness: the replay of a key was answered with the id and the stored
\* status of a transaction that Process had completed or failed
C13_Witness ==
  \E r1, r2 \in Requests :
    /\ r1 # r2
    /\ req[r1].pc = "done" /\ req[r2].pc = "done"
    /\ req[r1].key = req[r2].key
    /\ req[r1].resp.via = "created" /\ req[r2].resp.via = "lookup"
    /\ req[r2].resp.transaction_id = req[r1].resp.transaction_id
    /\ req[r2].resp.status \in Terminal
    /\ req[r2].resp.status = txs[req[r2].resp.transaction_id].status


\* C14 (the claim as stated): a transfer whose source is a system account is
\* never failed for insufficient funds
C14_SystemAccountBypass ==
  \A id \in DOMAIN txs :
    (PartyAccount(id, "source") \in AccountIds /\ IsSystemAccount(PartyAccount(id, "source")))
      => ~(txs[id].status = "failed" /\ txs[id].error_message = "insufficient funds")


\* C15: every committed ledger row is in the ledger after every step, with
\* all its fields (id, transaction, account, amount, type) as they were
C15_LedgerAppendOnly == [][ledger \subseteq ledger']_vars

\* C15 witness: after two more transfers touched account A, the rows of the
\* seed transfer are in the ledger as they were written
C15_Witness ==
  /\ SeedId \in DOMAIN txs
  /\ EntriesOf(ledger, SeedId) = SeedEntries(txs[SeedId].amount)
  /\ Cardinality({id \in DOMAIN txs \ {SeedId} :
                    EntriesOn(EntriesOf(ledger, id), "A") # {}}) >= 2


\* a call of Process commits in this step
EngineCommits ==
  \E e \in Executors :
    /\ proc[e].pc \in {"check", "settle"}
    /\ proc'[e].pc = "returned"
    /\ ~proc'[e].result.err

StatusesKept == \A id \in DOMAIN txs : id \in DOMAIN txs' /\ txs'[id].status = txs[id].status

C16_Step ==
  /\ (ledger' # ledger \/ ~StatusesKept) => EngineCommits
  /\ \A id \in DOMAIN txs' \ DOMAIN txs :
       txs'[id].status = "pending" /\ EntriesOf(ledger', id) = {}
  /\ (req' # req \/ queue' # queue \/ wk' # wk) => (ledger' = ledger /\ StatusesKept)

\* C16: the ledger and the status of an existing transaction change only in
\* a step in which a call of Process commits; a step of intake, of the
\* publisher or of a worker's loop leaves both as they were, and a new
\* transaction starts pending with no ledger row
C16_OnlyEngineMutates == [][C16_Step]_vars

\* C16 witness: in async mode one transfer was taken in, published and
\* answered and is still pending, while a worker completed another
C16_Witness ==
  /\ asyncMode
  /\ \E r \in Requests :
       /\ req[r].pc = "done" /\ req[r].resp.via = "created"
       /\ req[r].resp.transaction_id \in hist.published
       /\ txs[req[r].resp.transaction_id].status = "pending"
       /\ req[r].resp.transaction_id \notin hist.delivered
  /\ \E id \in hist.delivered :
       txs[id].status = "completed" /\ Cardinality(EntriesOf(ledger, id)) = 2


PartiesOf(P, id) == {p \in P : p.transaction_id = id}

C17_Parties ==
  /\ \A id \in DOMAIN txs :
       /\ Cardinality(PartiesOf(parties, id)) = 2
       /\ \E s, d \in PartiesOf(parties, id) :
            /\ s.role = "source" /\ d.role = "destination"
            /\ s.account_id # d.account_id
            /\ s.account_id \in AccountIds /\ d.account_id \in AccountIds
  /\ \A p \in parties : p.transaction_id \in DOMAIN txs

C17_Step ==
  /\ \A id \in DOMAIN txs : PartiesOf(parties', id) = PartiesOf(parties, id)
  /\ \A r \in Requests :
       (req[r].pc = "create" /\ req'[r].pc = "done" /\ req'[r].resp.code = 500)
         => txs' = txs /\ parties' = parties

\* C17: in every state each transaction has exactly two parties, one source
\* and one destination, on two different accounts, and no party is without
\* its transaction; a Create that fails leaves neither a row nor a party; the
\* parties of an existing transaction are the same after every step
C17_PartiesCreatedOnce == [](C17_Parties) /\ [][C17_Step]_vars

\* C17 witness: one Create failed and left nothing, another created a
\* transaction with its parties, which Process then settled
C17_Witness ==
  \E r1, r2 \in Requests :
    /\ req[r1].pc = "done" /\ req[r1].resp.code = 500
    /\ GetByIdempotencyKey(req[r1].key) = {}
    /\ req[r2].pc = "done" /\ req[r2].resp.via = "created"
    /\ txs[req[r2].resp.transaction_id].status \in Terminal
    /\ Cardinality(PartiesOf(parties, req[r2].resp.transaction_id)) = 2


SameKeyAndAmount(old, new) ==
  new.idempotency_key = old.idempotency_key /\ new.amount = old.amount

C18_Step ==
  /\ \A id \in DOMAIN txs : id \in DOMAIN txs' /\ SameKeyAndAmount(txs[id], txs'[id])
  /\ \A e \in Executors : \A u \in unit'[e].txs : SameKeyAndAmount(txs[u.id], u.row)
  /\ \A r \in Requests :
       (req[r].pc = "create" /\ req'[r].pc # "create" /\ req'[r].resp.code # 500
        /\ GetByIdempotencyKey(req[r].key) = {})
         => \E id \in DOMAIN txs' \ DOMAIN txs :
              /\ txs'[id].idempotency_key = req[r].key
              /\ txs'[id].amount = ToDecimal4(req[r].body.amount)

\* C18: a transaction is created with the key and the amount of its request,
\* and no step (claim, complete, fail, rollback, a replay of the key with
\* another body) changes the key or the amount of an existing transaction,
\* in the committed row or in an uncommitted version of it
C18_KeyAndAmountFixed == [][C18_Step]_vars

\* C18 witness: a request with the key of an existing transaction and another
\* amount was answered with that transaction, which was then settled with the
\* amount of the request that created it
C18_Witness ==
  \E r1, r2 \in Requests :
    /\ req[r1].pc = "done" /\ req[r2].pc = "done"
    /\ req[r1].resp.via = "created" /\ req[r2].resp.via = "race"
    /\ req[r1].key = req[r2].key
    /\ ToDecimal4(req[r1].body.amount) # ToDecimal4(req[r2].body.amount)
    /\ txs[req[r2].resp.transaction_id].amount = ToDecimal4(req[r1].body.amount)
    /\ txs[req[r2].resp.transaction_id].status \in Terminal


C19_SameCall ==
  \A m1, m2 \in MessageSpace :
    m1.transaction_id = m2.transaction_id => processMessage(m1) = processMessage(m2)

C19_Step ==
  \A w \in Workers :
    (wk[w] = "idle" /\ wk'[w] = "busy")
      => /\ proc'[w] = [IdleProc EXCEPT !.pc = "claim", !.id = Head(queue).transaction_id]
         /\ txs' = txs /\ ledger' = ledger /\ parties' = parties /\ unit' = unit

C19_Outcome ==
  \A id \in hist.delivered :
    /\ txs[id].status = "completed" => IsTransferPair(EntriesOf(ledger, id), id)
    /\ txs[id].status # "completed" => EntriesOf(ledger, id) = {}
    /\ txs[id].status = "failed" => txs[id].error_message = "insufficient funds"

TakesMessage(w) == wk[w] # "busy" /\ wk'[w] = "busy"

Signalled(w) == sig[w].stop \/ sig[w].cancelled

C20_Step ==
  \A w \in Workers :
    /\ sig[w].cancelled => ~TakesMessage(w)
    /\ (sig[w].stop /\ TakesMessage(w)) => (wk[w] = "polling" /\ sig[w].late = 0)
    /\ wk[w] = "stopped" => wk'[w] = "stopped"

C21_SourceOwnedByCustomer ==
  \A r \in Requests :
    (req[r].pc = "done" /\ req[r].resp.via = "created")
      => OwnedBy(PartyAccount(req[r].resp.transaction_id, "source"), GetCustomerID(r))


\* C22 (the claim as stated): GetTransaction answers 200 with a transaction's
\* details only to a customer who owns its source or its destination account
C22_OnlyPartiesView ==
  \A r \in Requests :
    (req[r].pc = "done" /\ req[r].resp.code = 200)
      => \/ OwnedBy(PartyAccount(req[r].resp.transaction_id, "source"), GetCustomerID(r))
         \/ OwnedBy(PartyAccount(req[r].resp.transaction_id, "destination"), GetCustomerID(r))


\* the account of customer id is locked at time now
LockedNow(C, id, now) == C[id].locked_until # NullTime /\ now < C[id].locked_until

\* session l begins a Login in this step
BeginsLogin(l) == login[l].pc \in {"idle", "returned"} /\ hist'.logins = hist.logins + 1
                    /\ login'[l] # login[l]

C23_Step ==
  /\ \A l \in Logins : \A id \in CustomerIds :
       (/\ BeginsLogin(l)
        /\ login'[l].req.email = customers[id].email
        /\ login'[l].req.password # ""
        /\ LockedNow(customers, id, clock))
         => /\ login'[l].pc = "returned"
            /\ login'[l].err = "ErrAccountLocked"
            /\ ~login'[l].tokens
            /\ customers' = customers
  /\ \A l \in Logins :
       LET id == login[l].id
       IN /\ (login[l].pc = "increment" /\ login'[l] # login[l])
               => /\ customers'[id].failed_login_attempts
                       = customers[id].failed_login_attempts + 1
                  /\ customers'[id].failed_login_attempts >= MaxFailedAttempts
                       => login'[l].pc = "lock"
                  /\ ~login'[l].tokens
          /\ (login[l].pc = "lock" /\ login'[l] # login[l])
               => /\ customers'[id].locked_until = clock + LockDuration
                  /\ \A t \in clock..(clock + LockDuration - 1) : LockedNow(customers', id, t)
                  /\ ~LockedNow(customers', id, clock + LockDuration)
                  /\ ~login'[l].tokens
          /\ (login[l].pc = "reset" /\ login'[l] # login[l])
               => customers'[id].failed_login_attempts = 0
          /\ (~login[l].tokens /\ login'[l].tokens)
               => login[l].pc = "tokens" /\ login[l].req.password = customers[id].password
  /\ \A id \in CustomerIds :
       \/ customers'[id].locked_until = customers[id].locked_until
       \/ \E l \in Logins : login[l].pc = "lock" /\ login'[l].pc = "returned"

C23_Locked ==
  \A id \in CustomerIds :
    customers[id].failed_login_attempts >= MaxFailedAttempts
      => \/ customers[id].locked_until # NullTime
         \/ \E l \in Logins : login[l].pc = "lock" /\ login[l].id = id

NilEntryId == [tx |-> NilAccount, n |-> 0]

\* C24: for every transaction, source, destination and amount A,
\* buildTransferEntries returns exactly two entries with distinct non-nil
\* identifiers, the same transaction reference and the same timestamp: first
\* a debit of -A on the source account, then a credit of +A on the
\* destination account.
C24_TwoEntries ==
  (call.fn = "buildTransferEntries" /\ call.out # <<>>) =>
    LET entries == call.out[1]
        txID    == call.args[1]
        from    == call.args[2]
        to      == call.args[3]
        A       == call.args[4]
    IN /\ Len(entries) = 2
       /\ entries[1].id # entries[2].id
       /\ entries[1].id # NilEntryId
       /\ entries[2].id # NilEntryId
       /\ entries[1].transaction_id = txID
       /\ entries[2].transaction_id = txID
       /\ entries[1].created_at = entries[2].created_at
       /\ entries[1].entry_type = "debit"
       /\ entries[1].account_id = from
       /\ entries[1].amount = -A
       /\ entries[2].entry_type = "credit"
       /\ entries[2].account_id = to
       /\ entries[2].amount = A

\* buildTransferEntries has returned for a positive amount between two accounts
C24_Witness ==
  /\ call.fn = "buildTransferEntries"
  /\ call.out # <<>>
  /\ call.args[2] # call.args[3]
  /\ call.args[4] > 0
  /\ Len(call.out[1]) = 2

\* an amount text that is a number: the whole text, surrounding whitespace
\* aside, reads as a decimal number
IsNumber(s) == WellFormed(TrimSpace(s)) /\ ~IsNaN(TrimSpace(s))

\* C25: hasSufficientFunds(balance, amount) is true exactly when amount is a
\* well-formed number and balance >= amount: a balance equal to the amount
\* suffices, and a smaller, zero or negative balance, or a malformed or empty
\* amount, yields false.
C25_SufficientExactly ==
  (call.fn = "hasSufficientFunds" /\ call.out # <<>>) =>
    LET balance   == call.args[1]
        amountStr == call.args[2]
    IN call.out[1] <=> /\ IsNumber(amountStr)
                       /\ balance * 10 >= ParseFloat(TrimSpace(amountStr))

\* C26: validateAmount accepts an amount exactly when, after trimming
\* surrounding whitespace, it is a well-formed number strictly greater than
\* zero; empty, whitespace-only, non-numeric, partly numeric, zero and
\* negative amounts are all rejected with ErrInvalidAmount.
C26_AcceptsExactly ==
  (call.fn = "validateAmount" /\ call.out # <<>>) =>
    LET amount == call.args[1]
    IN /\ call.out[1] \in {"", "ErrInvalidAmount"}
       /\ call.out[1] = "" <=> /\ IsNumber(amount)
                               /\ ParseFloat(TrimSpace(amount)) > 0

\* the number of characters of a currency string
Characters(s) ==
  CASE s \in {"NOK", "USD"} -> 3
    [] s = "NO"             -> 2
    [] s = "NOKK"           -> 4
    [] s = "N<U+00F8>"      -> 2
    [] OTHER                -> 0

\* C27: CreateTransferRequest.Validate returns the first failing rule in this
\* order: nil source account -> ErrInvalidFromAccount, nil destination
\* account -> ErrInvalidToAccount, source equal to destination ->
\* ErrSameAccount, empty amount -> ErrInvalidAmount, currency not exactly 3
\* characters -> ErrInvalidCurrency; it returns nil only when none of these
\* holds.
C27_FirstFailingRule ==
  (call.fn = "Validate" /\ call.out # <<>>) =>
    LET r == call.args[1]
    IN call.out[1] =
         IF r.from_account_id = NilAccount THEN "ErrInvalidFromAccount"
         ELSE IF r.to_account_id = NilAccount THEN "ErrInvalidToAccount"
         ELSE IF r.from_account_id = r.to_account_id THEN "ErrSameAccount"
         ELSE IF r.amount = "" THEN "ErrInvalidAmount"
         ELSE IF Characters(r.currency) # 3 THEN "ErrInvalidCurrency"
         ELSE ""

\* C28: in every reachable state, under any interleaving of concurrent
\* Process invocations on different transactions, the derived balance (sum of
\* ledger entries) of every ordinary customer account is non-negative, given
\* that it starts non-negative and is only changed by transfers.
C28_NonNegativeBalances ==
  \A a \in AccountIds :
    AccountTable[a].customer_id # "nil" => Balance(ledger, a) >= 0

\* C29: every transaction accepted by intake eventually reaches a terminal
\* status (completed or failed), assuming workers keep running and storage
\* faults are transient: a publish failure in async mode, a Process error in
\* sync mode, or a Process error in the worker never leaves the transaction
\* in pending forever.
C29_EventuallyTerminal ==
  \A id \in IdSpace :
    (id \in DOMAIN txs) ~> (id \in DOMAIN txs /\ txs[id].status \in Terminal)

\* C30: because Process performs the claim and the finalisation in one atomic
\* unit, no committed state reached through Process has a transaction in
\* status processing: every observer outside the unit sees a transaction only
\* as pending, completed or failed.
C30_NoCommittedProcessing ==
  \A id \in DOMAIN txs :
    /\ txs[id].status \in {"pending", "completed", "failed"}
    /\ Visible(NoUnit, id).status \in {"pending", "completed", "failed"}

\* a Process invocation holds a claimed row in its open unit while the
\* committed row is still pending
C30_Witness ==
  \E e \in Executors : \E id \in DOMAIN txs :
    /\ proc[e].pc \in {"check", "settle"}
    /\ proc[e].id = id
    /\ Visible(unit[e], id).status = "processing"
    /\ txs[id].status = "pending"

RECURSIVE SumBalances(_, _)
\* the sum of the balances of a set of accounts
SumBalances(L, As) ==
  IF As = {} THEN 0
  ELSE LET a == CHOOSE x \in As : TRUE IN Balance(L, a) + SumBalances(L, As \ {a})

\* C31: conservation of money: after any sequence and interleaving of Process
\* invocations the sum of the amounts of all ledger entries over all accounts
\* is zero, i.e. the sum of all account balances is unchanged by transfers.
C31_Conservation ==
  /\ SumAmounts(ledger) = 0
  /\ SumBalances(ledger, AccountIds) = 0
  /\ \A x \in ledger : x.account_id \in AccountIds

\* two transfers have been processed to completion and moved money
C31_Witness ==
  \E i, j \in PendingIds :
    /\ i # j
    /\ txs[i].status = "completed" /\ EntriesOf(ledger, i) # {}
    /\ txs[j].status = "completed" /\ EntriesOf(ledger, j) # {}
    /\ \E a \in AccountIds : Balance(ledger, a) # 0

\* how often the identifier id has been appended to the queue: its messages
\* still queued and the one a worker took
Appended(id) ==
  Cardinality({i \in 1..Len(queue) : queue[i].transaction_id = id})
    + (IF id \in hist.delivered THEN 1 ELSE 0)

\* C32: in async mode, each newly created transaction is answered with status
\* pending and its identifier is appended to the queue exactly once, after
\* the Transaction Record is committed; a replayed request with an existing
\* idempotency key appends nothing.
C32_AppendedExactlyOnce ==
  asyncMode =>
    /\ \A r \in Requests :
         (req[r].pc = "done" /\ req[r].resp.via = "created") =>
           /\ req[r].resp.code = 202
           /\ req[r].resp.status = "pending"
           /\ req[r].id \in DOMAIN txs
           /\ Appended(req[r].id) = 1
    /\ \A id \in IdSpace : Appended(id) > 0 => id \in DOMAIN txs /\ Appended(id) = 1

\* the step in which the request r returns from the creation path
C33_Step ==
  \A r \in Requests :
    (~asyncMode /\ req[r].pc = "process" /\ req'[r].pc = "done") =>
      LET id     == req[r].id
          result == proc[r].result
      IN /\ req'[r].resp.transaction_id = id
         /\ req'[r].resp.status = txs'[id].status
         /\ result.err => txs'[id].status = "pending"
         /\ (~result.err /\ result.Success) => txs'[id].status = "completed"
         /\ (~result.err /\ ~result.Success) => txs'[id].status = "failed"

\* C33: in sync mode, the status that CreateTransfer reports for a newly
\* created transaction equals the status stored for that transaction when the
\* request returns: completed when Process completed it, failed when Process
\* recorded a business failure, pending when Process returned an error and
\* rolled back.
C33_ReportsStoredStatus == [][C33_Step]_vars

\* in sync mode one request was answered completed and the other pending
\* after its Process call returned an error
C33_Witness ==
  /\ ~asyncMode
  /\ \E r, q \in Requests :
       /\ req[r].pc = "done" /\ req[r].resp.via = "created"
       /\ req[r].resp.status = "completed"
       /\ req[q].pc = "done" /\ req[q].resp.via = "created"
       /\ req[q].resp.status = "pending"
       /\ hist.rolledBack # {}

\* a step of UpdateStatus (a call that is no Process invocation)
UpdateStatusStep == hist'.calls = hist.calls + 1 /\ proc' = proc

C34_Step ==
  UpdateStatusStep =>
    LET id        == hist'.update.id
        target    == hist'.update.status
        err       == hist'.update.err
        before    == IF id \in DOMAIN txs THEN txs[id].status ELSE "missing"
        permitted == <<before, target>> \in {<<"pending", "processing">>,
                                              <<"processing", "completed">>,
                                              <<"processing", "failed">>}
    IN /\ err = "" => /\ permitted
                      /\ txs' = [txs EXCEPT ![id] = UpdatedRow(@, target, "error")]
       /\ err # "" => txs' = txs
       /\ ~permitted => err # ""
       /\ target \notin {"processing", "completed", "failed"}
            => err = "ErrInvalidTransactionState"
       /\ (~permitted /\ err # "failed to update transaction status")
            => err = "ErrInvalidTransactionState"

\* C34: UpdateStatus(id, target) succeeds only for target processing when the
\* row is pending, target completed when the row is processing, and target
\* failed when the row is processing; for any other target, or when the row
\* is missing or not in the required predecessor status, it returns
\* ErrInvalidTransactionState (the error of the statement itself when that
\* fails) and leaves the row unchanged.
C34_UpdateStatusGuarded == [][C34_Step]_vars

\* UpdateStatus moved a row to processing by an earlier call and the last
\* call was refused with ErrInvalidTransactionState
C34_Witness ==
  /\ hist.calls = 2
  /\ hist.update.err = "ErrInvalidTransactionState"
  /\ hist.update.status \in {"processing", "completed", "failed"}
  /\ \E id \in PendingIds : txs[id].status = "processing" /\ hist.settled[id] = 0

\* C35: in every committed state: a transaction has a completion timestamp if
\* and only if its status is completed or failed; a failed transaction has a
\* non-empty error message and a completed or pending transaction has none; a
\* transaction that is not pending has a claim (processed_at) timestamp.
C35_RowWellFormed ==
  \A id \in DOMAIN txs :
    LET row == txs[id]
    IN /\ row.completed_at <=> row.status \in {"completed", "failed"}
       /\ row.status = "failed" => row.error_message # ""
       /\ row.status \in {"completed", "pending"} => row.error_message = ""
       /\ row.status # "pending" => row.processed_at

\* Process has completed one transaction and failed another
C35_Witness ==
  /\ \E id \in DOMAIN txs : txs[id].status = "completed" /\ hist.settled[id] = 1
  /\ \E id \in DOMAIN txs : txs[id].status = "failed" /\ hist.settled[id] = 1

\* C36: every transaction that intake accepts is executable: its stored
\* amount (a decimal with 4 fractional digits) is strictly greater than zero,
\* so the two ledger entries built from it satisfy the non-zero-amount
\* constraint and Process on it never fails on that constraint.
C36_AcceptedIsExecutable ==
  \A id \in DOMAIN txs :
    /\ txs[id].amount > 0
    /\ \A x \in Rows(buildTransferEntries(ledger, id, PartyAccount(id, "source"),
                                            PartyAccount(id, "destination"),
                                            txs[id].amount, clock)) :
         EntryAccepted(x)

\* C37: a point-in-time balance is stable: for a timestamp T that is in the
\* past when first queried, every later query of the balance of the same
\* account as of T returns the same value, whatever transfers are processed
\* concurrently or afterwards.
C37_StableBalance ==
  \A p, q \in hist.seen :
    (p.account = q.account /\ p.as_of = q.as_of) => p.balance = q.balance

\* the request whose CreateTransfer inserted transaction id
CreatedBy(id) == {r \in Requests : req[r].id = id}

====
